------------------------- MODULE DefinitionsProofs -------------------------
(***************************************************************************)
(* Proofs about variables and functions, for any names, values and         *)
(* definitions and any depth of commands.                                  *)
(***************************************************************************)
EXTENDS Definitions, FiniteSetTheorems, SequenceTheorems, TLAPS

\* The invariant of stores: only exported variables are in the environment.
StoreOK(s) ==
  /\ s \in Stores
  /\ \A n \in Names : s.table[n] # Null => s.environ[n] = Absent

LEMMA EnvironmentIsExported ==
  ASSUME NEW s, StoreOK(s)
  PROVE  s.environ = Persistent!EnvironmentOf(Value(s), Exported(s))
BY DEF StoreOK, Stores, Persistent!EnvironmentOf, Value, Exported

\* A value goes into the environment, and the entry is given up.
LEMMA IntoEnvironment ==
  ASSUME NEW s, StoreOK(s), NEW n \in Names, NEW v \in Values
  PROVE  LET t == Export(s, n, v)
         IN  /\ StoreOK(t)
             /\ Value(t) = [Value(s) EXCEPT ![n] = v]
             /\ Exported(t) = Exported(s) \cup {n}
<1> DEFINE t == Export(s, n, v)
<1>1. v # Absent /\ v # Null /\ Null # Absent
  BY VariablesAssumption
<1>2. t = [s EXCEPT !.environ[n] = v, !.table[n] = Null]
  BY DEF Export, Setenv
<1> HIDE DEF t
<1>3. t \in Stores
  BY <1>2 DEF Stores, StoreOK
<1>4. /\ t.table = [s.table EXCEPT ![n] = Null]
      /\ t.environ = [s.environ EXCEPT ![n] = v]
  BY <1>2 DEF Stores, StoreOK
<1>5. StoreOK(t)
  BY <1>1, <1>3, <1>4 DEF StoreOK, Stores
<1>6. Value(t) = [Value(s) EXCEPT ![n] = v]
  BY <1>1, <1>4 DEF StoreOK, Stores, Value
<1>7. Exported(t) = Exported(s) \cup {n}
  BY <1>4 DEF StoreOK, Stores, Exported
<1> QED BY <1>5, <1>6, <1>7 DEF t

\* setVariable with a value: to assign it, and to export it.
LEMMA AssignKeeps ==
  ASSUME NEW s, StoreOK(s), NEW n \in Names, NEW v \in Values
  PROVE  LET t == SetVariable(s, n, v, FALSE)
         IN  /\ StoreOK(t)
             /\ Value(t) = [Value(s) EXCEPT ![n] = v]
             /\ Exported(t) = Exported(s)
<1> DEFINE t == SetVariable(s, n, v, FALSE)
<1>1. v # Absent /\ v # Null /\ Null # Absent
  BY VariablesAssumption
<1>2. CASE s.table[n] = Null
  <2>1. t = Export(s, n, v)
    BY <1>1, <1>2 DEF SetVariable
  <2>2. Exported(s) \cup {n} = Exported(s)
    BY <1>2 DEF Exported
  <2> HIDE DEF t
  <2>3. /\ StoreOK(t)
        /\ Value(t) = [Value(s) EXCEPT ![n] = v]
        /\ Exported(t) = Exported(s) \cup {n}
    BY <2>1, IntoEnvironment
  <2> QED BY <2>2, <2>3 DEF t
<1>3. CASE s.table[n] # Null
  <2>1. t = [s EXCEPT !.table[n] = v]
    BY <1>3 DEF SetVariable
  <2> HIDE DEF t
  <2>2. t \in Stores
    BY <2>1 DEF Stores, StoreOK
  <2>3. t.table = [s.table EXCEPT ![n] = v] /\ t.environ = s.environ
    BY <2>1 DEF Stores, StoreOK
  <2> QED BY <1>1, <1>3, <2>2, <2>3, ZenonT(40) DEF StoreOK, Stores, Value, Exported, t
<1> QED BY <1>2, <1>3

LEMMA ExportValueKeeps ==
  ASSUME NEW s, StoreOK(s), NEW n \in Names, NEW v \in Values
  PROVE  LET t == SetVariable(s, n, v, TRUE)
         IN  /\ StoreOK(t)
             /\ Value(t) = [Value(s) EXCEPT ![n] = v]
             /\ Exported(t) = Exported(s) \cup {n}
<1> DEFINE t == SetVariable(s, n, v, TRUE)
<1>1. t = Export(s, n, v)
  BY VariablesAssumption DEF SetVariable
<1> HIDE DEF t
<1>2. /\ StoreOK(t)
      /\ Value(t) = [Value(s) EXCEPT ![n] = v]
      /\ Exported(t) = Exported(s) \cup {n}
  BY <1>1, IntoEnvironment
<1> QED BY <1>2 DEF t

\* setVariable without a value, for export.
LEMMA ExportKeeps ==
  ASSUME NEW s, StoreOK(s), NEW n \in Names
  PROVE  LET t == SetVariable(s, n, Absent, TRUE)
         IN  /\ StoreOK(t)
             /\ Value(t) = Value(s)
             /\ Exported(t) = Exported(s) \cup {n}
<1> DEFINE t == SetVariable(s, n, Absent, TRUE)
<1>1. Absent \notin Values /\ Null \notin Values /\ Null # Absent
  BY VariablesAssumption
<1>2. s.table[n] \in Values \cup {Null, Absent}
  BY DEF StoreOK, Stores
<1>3. CASE s.table[n] \in Values
  <2>1. t = [s EXCEPT !.environ[n] = s.table[n], !.table[n] = Null]
    BY <1>3 DEF SetVariable, Export, Setenv
  <2> HIDE DEF t
  <2>2. t \in Stores
    BY <2>1, <1>3 DEF Stores, StoreOK
  <2>3. /\ t.table = [s.table EXCEPT ![n] = Null]
        /\ t.environ = [s.environ EXCEPT ![n] = s.table[n]]
    BY <2>1 DEF Stores, StoreOK
  <2>4. StoreOK(t)
    BY <1>1, <2>2, <2>3 DEF StoreOK, Stores
  <2>5. Value(t) = Value(s)
    BY <1>1, <1>3, <2>3 DEF StoreOK, Stores, Value
  <2>6. Exported(t) = Exported(s) \cup {n}
    BY <2>3 DEF StoreOK, Stores, Exported
  <2> QED BY <2>4, <2>5, <2>6 DEF t
<1>4. CASE s.table[n] \notin Values
  <2>1. t = [s EXCEPT !.table[n] = Null]
    BY <1>4 DEF SetVariable, Export
  <2> HIDE DEF t
  <2>2. t \in Stores
    BY <2>1 DEF Stores, StoreOK
  <2>3. t.table = [s.table EXCEPT ![n] = Null] /\ t.environ = s.environ
    BY <2>1 DEF Stores, StoreOK
  <2> QED BY <1>1, <1>2, <1>4, <2>2, <2>3, ZenonT(40)
          DEF StoreOK, Stores, Value, Exported, t
<1> QED BY <1>3, <1>4

LEMMA UnsetKeeps ==
  ASSUME NEW s, StoreOK(s), NEW n \in Names
  PROVE  LET t == UnsetVariable(s, n)
         IN  /\ StoreOK(t)
             /\ Value(t) = [Value(s) EXCEPT ![n] = Absent]
             /\ Exported(t) = Exported(s) \ {n}
<1> DEFINE t == UnsetVariable(s, n)
           e == IF s.table[n] = Null THEN Absent ELSE s.environ[n]
<1>1. Null # Absent
  BY VariablesAssumption
<1>2. t = [s EXCEPT !.table[n] = Absent, !.environ[n] = e]
  BY DEF UnsetVariable, StoreOK, Stores
<1>3. e = Absent
  BY DEF StoreOK
<1> HIDE DEF t, e
<1>4. t \in Stores
  BY <1>2, <1>3 DEF Stores, StoreOK
<1>5. /\ t.table = [s.table EXCEPT ![n] = Absent]
      /\ t.environ = [s.environ EXCEPT ![n] = Absent]
  BY <1>2, <1>3 DEF Stores, StoreOK
<1> QED BY <1>1, <1>4, <1>5, ZenonT(40) DEF StoreOK, Stores, Value, Exported, t

\* pushVariable and popVariables leave the variables alone.
LEMMA PushedKeeps ==
  ASSUME NEW s, StoreOK(s), NEW p \in Seq([name : Names, value : Values])
  PROVE  LET t == [s EXCEPT !.pushed = p]
         IN  StoreOK(t) /\ Value(t) = Value(s) /\ Exported(t) = Exported(s)
<1> DEFINE t == [s EXCEPT !.pushed = p]
<1>1. t \in Stores /\ t.table = s.table /\ t.environ = s.environ
  BY DEF StoreOK, Stores
<1> HIDE DEF t
<1> QED BY <1>1 DEF StoreOK, Value, Exported, t

LEMMA PushKeeps ==
  ASSUME NEW s, StoreOK(s), NEW n \in Names, NEW v \in Values
  PROVE  LET t == PushVariable(s, n, v)
         IN  StoreOK(t) /\ Value(t) = Value(s) /\ Exported(t) = Exported(s)
<1> DEFINE entries == [name : Names, value : Values]
           e == [name |-> n, value |-> v]
<1>1. s.pushed \in Seq(entries) /\ e \in entries
  BY DEF StoreOK, Stores
<1>2. Append(s.pushed, e) \in Seq(entries)
  BY <1>1, AppendProperties
<1>3. PushVariable(s, n, v) = [s EXCEPT !.pushed = Append(s.pushed, e)]
  BY DEF PushVariable, StoreOK, Stores
<1> QED BY <1>2, <1>3, PushedKeeps

LEMMA PopKeeps ==
  ASSUME NEW s, StoreOK(s)
  PROVE  LET t == PopVariables(s)
         IN  StoreOK(t) /\ Value(t) = Value(s) /\ Exported(t) = Exported(s)
<1>1. << >> \in Seq([name : Names, value : Values])
  OBVIOUS
<1> QED BY <1>1, PushedKeeps DEF PopVariables

\* initializeVariables forgets all but the environment.
LEMMA InitializeKeeps ==
  ASSUME NEW s \in Stores
  PROVE  LET t == InitializeVariables(s)
         IN  /\ StoreOK(t)
             /\ Value(t) = Persistent!StartsWith(s.environ)[1]
             /\ Exported(t) = Persistent!StartsWith(s.environ)[2]
<1> DEFINE fresh == [n \in Names |-> IF s.environ[n] = Absent THEN Absent ELSE Null]
           u == PopVariables([s EXCEPT !.table = fresh])
           t == InitializeVariables(s)
<1>1. u \in Stores /\ u.table = fresh /\ u.environ = s.environ
  <2>1. fresh \in [Names -> Values \cup {Null, Absent}]
    OBVIOUS
  <2>2. << >> \in Seq([name : Names, value : Values])
    OBVIOUS
  <2>3. u = [s EXCEPT !.table = fresh, !.pushed = << >>]
    BY DEF PopVariables, Stores
  <2> HIDE DEF fresh, u
  <2> QED BY <2>1, <2>2, <2>3 DEF Stores
<1>2. Null # Absent /\ Null \notin Values
  BY VariablesAssumption
<1>3. /\ StoreOK(u) /\ Value(u) = s.environ
      /\ Exported(u) = {n \in Names : s.environ[n] # Absent}
  <2>1. s.environ \in [Names -> Values \cup {Absent}]
    BY DEF Stores
  <2>2. \A n \in Names : u.table[n] = Null <=> s.environ[n] # Absent
    BY <1>1, <1>2
  <2>3. \A n \in Names : u.table[n] # Null => u.table[n] = Absent
    BY <1>1
  <2> HIDE DEF u
  <2>4. StoreOK(u)
    BY <1>1, <2>2 DEF StoreOK
  <2>5. Value(u) = s.environ
    BY <1>1, <2>1, <2>2, <2>3 DEF Value
  <2>6. Exported(u) = {n \in Names : s.environ[n] # Absent}
    BY <2>2 DEF Exported
  <2> QED BY <2>4, <2>5, <2>6
<1>4. t = SetVariable(u, IFS, DefaultIFS, FALSE)
  BY DEF InitializeVariables
<1>5. IFS \in Names /\ DefaultIFS \in Values
  BY VariablesAssumption
<1> HIDE DEF t, u
<1>6. /\ StoreOK(t)
      /\ Value(t) = [Value(u) EXCEPT ![IFS] = DefaultIFS]
      /\ Exported(t) = Exported(u)
  BY <1>3, <1>4, <1>5, AssignKeeps
<1>7. /\ Persistent!StartsWith(s.environ)[1] = [s.environ EXCEPT ![IFS] = DefaultIFS]
      /\ Persistent!StartsWith(s.environ)[2] = {n \in Names : s.environ[n] # Absent}
  BY DEF Persistent!StartsWith
<1> QED BY <1>3, <1>6, <1>7 DEF t

-----------------------------------------------------------------------------
(***************************************************************************)
(* Each step is one of the variables of a shell, or none.                  *)
(***************************************************************************)
LEMMA Shown ==
  /\ Persistent!vars = << Value(store), Exported(store), store.environ >>
  /\ Persistent!vars' = << Value(store'), Exported(store'), store'.environ >>
BY DEF Persistent!vars

LEMMA Stutters ==
  ASSUME StoreOK(store), StoreOK(store'),
         Value(store') = Value(store), Exported(store') = Exported(store)
  PROVE  UNCHANGED Persistent!vars
BY Shown, EnvironmentIsExported

\* What a step does is said by the values and by the names that are exported.
LEMMA Becomes ==
  ASSUME StoreOK(store'), NEW values, NEW names,
         Value(store') = values, Exported(store') = names
  PROVE  Persistent!Becomes(values, names)
<1>1. store'.environ = Persistent!EnvironmentOf(Value(store'), Exported(store'))
  BY EnvironmentIsExported
<1> QED BY <1>1 DEF Persistent!Becomes

\* The steps that are steps of the variables of a shell.
Steps == StoreOK(store') /\ [Persistent!Next]_(Persistent!vars)

LEMMA Assigns ==
  ASSUME StoreOK(store), NEW n \in Names, NEW v \in Values,
         store' = SetVariable(store, n, v, FALSE)
  PROVE  Steps
<1>1. /\ StoreOK(store')
      /\ Value(store') = [Value(store) EXCEPT ![n] = v]
      /\ Exported(store') = Exported(store)
  BY AssignKeeps
<1>2. Persistent!Becomes([Value(store) EXCEPT ![n] = v], Exported(store))
  BY <1>1, Becomes
<1>3. Persistent!Assign(n, v)
  BY <1>2 DEF Persistent!Assign
<1> QED BY <1>1, <1>3 DEF Steps, Persistent!Next

LEMMA Exports ==
  ASSUME StoreOK(store), NEW n \in Names, NEW v \in Values \cup {Absent},
         store' = SetVariable(store, n, v, TRUE)
  PROVE  Steps
<1>1. CASE v \in Values
  <2>1. /\ StoreOK(store')
        /\ Value(store') = [Value(store) EXCEPT ![n] = v]
        /\ Exported(store') = Exported(store) \cup {n}
    BY <1>1, ExportValueKeeps
  <2>2. Persistent!Becomes([Value(store) EXCEPT ![n] = v], Exported(store) \cup {n})
    BY <2>1, Becomes
  <2>3. Persistent!ExportValue(n, v)
    BY <2>2 DEF Persistent!ExportValue
  <2> QED BY <1>1, <2>1, <2>3 DEF Steps, Persistent!Next
<1>2. CASE v = Absent
  <2>1. /\ StoreOK(store')
        /\ Value(store') = Value(store)
        /\ Exported(store') = Exported(store) \cup {n}
    BY <1>2, ExportKeeps
  <2>2. Persistent!Becomes(Value(store), Exported(store) \cup {n})
    BY <2>1, Becomes
  <2>3. Persistent!Export(n)
    BY <2>2 DEF Persistent!Export
  <2> QED BY <2>1, <2>3 DEF Steps, Persistent!Next
<1> QED BY <1>1, <1>2

LEMMA Unsets ==
  ASSUME StoreOK(store), NEW n \in Names, store' = UnsetVariable(store, n)
  PROVE  Steps
<1>1. /\ StoreOK(store')
      /\ Value(store') = [Value(store) EXCEPT ![n] = Absent]
      /\ Exported(store') = Exported(store) \ {n}
  BY UnsetKeeps
<1>2. Persistent!Becomes([Value(store) EXCEPT ![n] = Absent], Exported(store) \ {n})
  BY <1>1, Becomes
<1>3. Persistent!Unset(n)
  BY <1>2 DEF Persistent!Unset
<1> QED BY <1>1, <1>3 DEF Steps, Persistent!Next

LEMMA Keeps ==
  ASSUME StoreOK(store), StoreOK(store'),
         Value(store') = Value(store), Exported(store') = Exported(store)
  PROVE  Steps
BY Stutters DEF Steps

\* Only a utility's assignments are added to the environment of a script.
LEMMA Scripts ==
  ASSUME StoreOK(store), NEW s \in Stores, store' = InitializeVariables(s),
         \A n \in Names : store.environ[n] # Absent => s.environ[n] # Absent
  PROVE  Steps
<1>1. /\ StoreOK(store')
      /\ Value(store') = Persistent!StartsWith(s.environ)[1]
      /\ Exported(store') = Persistent!StartsWith(s.environ)[2]
  BY InitializeKeeps
<1>2. Persistent!Becomes(Persistent!StartsWith(s.environ)[1],
                         Persistent!StartsWith(s.environ)[2])
  BY <1>1, Becomes
<1>3. s.environ \in [Names -> Values \cup {Absent}]
  BY DEF Stores
<1>4. Persistent!Script
  BY <1>2, <1>3 DEF Persistent!Script
<1> QED BY <1>1, <1>4 DEF Steps, Persistent!Next

\* The actions that change the variables.
StoreActions ==
  Assign \/ EndFunction \/ ReadVariable \/ ExportVariable \/ Unset
    \/ EndCommand \/ AssignInPassing \/ ExecuteScript

LEMMA OtherActions ==
  ASSUME [Next]_vars, ~StoreActions
  PROVE  store' = store
BY DEF Next, vars, StoreActions, ReadList, Eval, EndList, DefineFunction,
       BeginCommand, CallFunction, CommandBuiltin

LEMMA StoreSteps ==
  ASSUME StoreOK(store), [Next]_vars
  PROVE  Steps
<1>1. CASE ~StoreActions
  BY <1>1, OtherActions, Keeps
<1>2. CASE Assign
  <2>1. PICK a \in Assignment :
          store' = CASE Top.kind = "special" ->
                          SetVariable(store, a.name, a.value, FALSE)
                     [] Top.kind = "utility" -> store
                     [] OTHER -> PushVariable(store, a.name, a.value)
    BY <1>2 DEF Assign
  <2>2. a.name \in Names /\ a.value \in Values
    BY DEF Assignment
  <2>3. CASE store' = SetVariable(store, a.name, a.value, FALSE)
    BY <2>2, <2>3, Assigns
  <2>4. CASE store' = store
    BY <2>4, Keeps
  <2>5. CASE store' = PushVariable(store, a.name, a.value)
    BY <2>2, <2>5, PushKeeps, Keeps
  <2> QED BY <2>1, <2>3, <2>4, <2>5
<1>3. CASE EndFunction \/ EndCommand
  <2>1. store' = PopVariables(store)
    BY <1>3 DEF EndFunction, EndCommand
  <2> QED BY <2>1, PopKeeps, Keeps
<1>4. CASE ReadVariable \/ AssignInPassing
  <2>1. PICK a \in Assignment : store' = SetVariable(store, a.name, a.value, FALSE)
    BY <1>4 DEF ReadVariable, AssignInPassing
  <2> QED BY <2>1, Assigns DEF Assignment
<1>5. CASE ExportVariable
  <2>1. PICK n \in Names, v \in Values \cup {Absent} :
          store' = SetVariable(store, n, v, TRUE)
    BY <1>5 DEF ExportVariable
  <2> QED BY <2>1, Exports
<1>6. CASE Unset
  <2>1. CASE UNCHANGED store
    BY <2>1, Keeps
  <2>2. CASE \E n \in Names : store' = UnsetVariable(store, n)
    BY <2>2, Unsets
  <2> QED BY <1>6, <2>1, <2>2 DEF Unset
<1>7. CASE ExecuteScript
  <2>1. CASE store' = InitializeVariables(store)
    <3>1. store \in Stores
      BY DEF StoreOK
    <3> QED BY <2>1, <3>1, Scripts
  <2>2. ASSUME NEW a \in Assignment,
               store' = InitializeVariables(Setenv(store, a.name, a.value))
        PROVE  Steps
    <3> DEFINE s == Setenv(store, a.name, a.value)
    <3>1. a.name \in Names /\ a.value \in Values /\ a.value # Absent
      BY VariablesAssumption DEF Assignment
    <3>2. s = [store EXCEPT !.environ[a.name] = a.value]
      BY DEF Setenv
    <3>3. store' = InitializeVariables(s)
      BY <2>2
    <3> HIDE DEF s
    <3>4. s \in Stores /\ s.environ = [store.environ EXCEPT ![a.name] = a.value]
      BY <3>1, <3>2 DEF StoreOK, Stores
    <3>5. \A n \in Names : store.environ[n] # Absent => s.environ[n] # Absent
      BY <3>1, <3>4 DEF StoreOK, Stores
    <3> QED BY <3>3, <3>4, <3>5, Scripts
  <2>3. \/ store' = InitializeVariables(store)
        \/ \E a \in Assignment :
             store' = InitializeVariables(Setenv(store, a.name, a.value))
    BY <1>7 DEF ExecuteScript
  <2> QED BY <2>1, <2>2, <2>3
<1> QED BY <1>1, <1>2, <1>3, <1>4, <1>5, <1>6, <1>7 DEF StoreActions

LEMMA StoresStart ==
  ASSUME Init
  PROVE  StoreOK(store) /\ Persistent!Init
<1>1. PICK e \in [Names -> Values \cup {Absent}] :
        store = InitializeVariables([table |-> [n \in Names |-> Absent], environ |-> e,
                                     pushed |-> <<>>])
  BY DEF Init, InitialStores
<1> DEFINE s == [table |-> [n \in Names |-> Absent], environ |-> e, pushed |-> <<>>]
<1>2. s \in Stores /\ s.environ = e
  BY DEF Stores
<1>3. store = InitializeVariables(s)
  BY <1>1
<1> HIDE DEF s
<1>4. /\ StoreOK(store)
      /\ Value(store) = Persistent!StartsWith(e)[1]
      /\ Exported(store) = Persistent!StartsWith(e)[2]
  BY <1>2, <1>3, InitializeKeeps
<1>5. store.environ = Persistent!EnvironmentOf(Value(store), Exported(store))
  BY <1>4, EnvironmentIsExported
<1> QED BY <1>4, <1>5 DEF Persistent!Init

\* Whatever the script does, the table and the environment of the process
\* together are the variables of a shell: each has one value, and utilities get
\* those that are exported (setVariable, unsetVariable, initializeVariables).
THEOREM DefinitionsKeepVariables == Spec => VariablesAreKept
<1>1. Init => StoreOK(store) /\ Persistent!Init
  BY StoresStart
<1>2. StoreOK(store) /\ [Next]_vars => StoreOK(store)'
  BY StoreSteps DEF Steps
<1>3. StoreOK(store) /\ [Next]_vars => [Persistent!Next]_(Persistent!vars)
  BY StoreSteps DEF Steps
<1> QED BY <1>1, <1>2, <1>3, PTL DEF Spec, VariablesAreKept, Persistent!Spec

-----------------------------------------------------------------------------
(***************************************************************************)
(* The reference counts of function definitions, nested in any way, and    *)
(* any depth of calls and lists.                                           *)
(***************************************************************************)

(***************************************************************************)
(* The definitions that are freed are the least set that is closed.        *)
(***************************************************************************)
Closed(m, dropped, F) ==
  \A d \in Definitions : m.refcount[d] \in 1..Lost(m, dropped, F, d) => d \in F

LEMMA FreedIs ==
  ASSUME NEW m, NEW dropped
  PROVE  Freed(m, dropped) =
           {d \in Definitions :
              \A F \in SUBSET Definitions : Closed(m, dropped, F) => d \in F}
BY DEF Freed, Closed

LEMMA LostMore ==
  ASSUME NEW m, NEW dropped, NEW F, NEW G, F \subseteq G, NEW d
  PROVE  /\ Lost(m, dropped, F, d) \in 0..2
         /\ Lost(m, dropped, G, d) \in 0..2
         /\ Lost(m, dropped, F, d) <= Lost(m, dropped, G, d)
BY DEF Lost

LEMMA FreedIsClosed ==
  ASSUME NEW m \in Memories, NEW dropped
  PROVE  Closed(m, dropped, Freed(m, dropped))
<1> DEFINE freed == Freed(m, dropped)
<1> SUFFICES ASSUME NEW d \in Definitions,
                    m.refcount[d] \in 1..Lost(m, dropped, freed, d),
                    NEW F \in SUBSET Definitions, Closed(m, dropped, F)
             PROVE  d \in F
  BY FreedIs DEF Closed
<1>1. freed \subseteq F
  BY FreedIs
<1>2. m.refcount[d] \in Nat
  BY DEF Memories
<1> HIDE DEF freed
<1>3. m.refcount[d] \in 1..Lost(m, dropped, F, d)
  BY <1>1, <1>2, LostMore
<1> QED BY <1>3 DEF Closed

LEMMA FreedIsLeast ==
  ASSUME NEW m \in Memories, NEW dropped, NEW d \in Freed(m, dropped)
  PROVE  m.refcount[d] \in 1..Lost(m, dropped, Freed(m, dropped), d)
<1> DEFINE freed == Freed(m, dropped)
           F == freed \ {d}
<1> SUFFICES ASSUME m.refcount[d] \notin 1..Lost(m, dropped, freed, d)
             PROVE  FALSE
  OBVIOUS
<1>1. freed \subseteq Definitions
  BY FreedIs
<1>2. Closed(m, dropped, freed)
  BY FreedIsClosed
<1>3. ASSUME NEW e \in Definitions, m.refcount[e] \in 1..Lost(m, dropped, F, e)
      PROVE  e \in F
  <2>1. m.refcount[e] \in Nat /\ F \subseteq freed
    BY DEF Memories
  <2> HIDE DEF F, freed
  <2>2. m.refcount[e] \in 1..Lost(m, dropped, freed, e)
    BY <1>3, <2>1, LostMore
  <2>3. e \in freed /\ e # d
    BY <1>2, <2>2 DEF Closed
  <2> QED BY <2>3 DEF F
<1>4. Closed(m, dropped, F)
  BY <1>3 DEF Closed
<1>5. d \in F
  BY <1>1, <1>4, FreedIs
<1> QED BY <1>5

(***************************************************************************)
(* The counts agree with the owners and with the other references x.       *)
(***************************************************************************)
Owned(m, d) == IF m.owner[d] # None THEN 1 ELSE 0
Counted(m, x) ==
  /\ m \in Memories
  /\ x \in [Definitions -> Nat]
  /\ \A d \in Definitions : m.refcount[d] = Owned(m, d) + x[d]

\* The references x without one of each of dropped.
Without(x, dropped) ==
  [d \in Definitions |-> x[d] - (IF d \in dropped THEN 1 ELSE 0)]

\* freeFunction, for a reference that is not that of the owner.
LEMMA DropCounts ==
  ASSUME NEW m, NEW x, Counted(m, x),
         NEW dropped \in SUBSET Definitions, \A d \in dropped : x[d] > 0
  PROVE  /\ Counted(Drop(m, dropped), Without(x, dropped))
         /\ Drop(m, dropped).functions = m.functions
<1> DEFINE freed == Freed(m, dropped)
           n == Drop(m, dropped)
           y == Without(x, dropped)
           refcount == [d \in Definitions |->
                          m.refcount[d] - Lost(m, dropped, freed, d)]
           owner == [d \in Definitions |->
                       IF d \in freed \/ m.owner[d] \in freed THEN None ELSE m.owner[d]]
<1>1. freed \subseteq Definitions
  BY FreedIs
<1>2. n = [m EXCEPT !.refcount = refcount, !.owner = owner]
  BY DEF Drop, Counted, Memories
<1>3. ASSUME NEW d \in Definitions
      PROVE  /\ x[d] \in Nat /\ y[d] \in Nat
             /\ refcount[d] = (IF owner[d] # None THEN 1 ELSE 0) + y[d]
  <2>1. /\ x[d] \in Nat
        /\ d \in dropped => x[d] > 0
        /\ y[d] = x[d] - (IF d \in dropped THEN 1 ELSE 0)
        /\ m.refcount[d] = (IF m.owner[d] # None THEN 1 ELSE 0) + x[d]
    BY DEF Counted, Without, Owned
  <2>2. y[d] \in Nat
    BY <2>1
  <2>3. None \notin freed
    BY <1>1, FunctionsAssumption
  <2>4. Lost(m, dropped, freed, d) =
          (IF d \in dropped THEN 1 ELSE 0) + (IF m.owner[d] \in freed THEN 1 ELSE 0)
    BY DEF Lost
  <2>5. d \in freed => m.refcount[d] \in 1..Lost(m, dropped, freed, d)
    BY FreedIsLeast DEF Counted
  <2>6. /\ refcount[d] = m.refcount[d] - Lost(m, dropped, freed, d)
        /\ owner[d] = IF d \in freed \/ m.owner[d] \in freed THEN None ELSE m.owner[d]
    OBVIOUS
  <2> HIDE DEF freed, refcount, owner, y
  <2> QED BY <2>1, <2>2, <2>3, <2>4, <2>5, <2>6
<1>4. refcount \in [Definitions -> Nat] /\ y \in [Definitions -> Nat]
  <2>1. \A d \in Definitions : refcount[d] \in Nat /\ y[d] \in Nat
    <3> HIDE DEF refcount, owner, y
    <3> QED BY <1>3
  <2> QED BY <2>1 DEF Without
<1>5. owner \in [Definitions -> Definitions \cup Lists \cup {None}]
  BY DEF Counted, Memories
<1> HIDE DEF freed, n, y, refcount, owner
<1>6. n \in Memories /\ n.refcount = refcount /\ n.owner = owner
      /\ n.functions = m.functions
  BY <1>2, <1>4, <1>5 DEF Counted, Memories
<1>7. Counted(n, y)
  BY <1>3, <1>4, <1>6 DEF Counted, Owned
<1> QED BY <1>6, <1>7 DEF n, y

(***************************************************************************)
(* The other references are those of the table and those that are held by  *)
(* calls: h[d] for each d.                                                 *)
(***************************************************************************)
Tabled(m, d) == IF m.functions[NameOf[d]] = d THEN 1 ELSE 0
Refs(m, h) == [d \in Definitions |-> Tabled(m, d) + h[d]]
FunctionsOK(m, h) ==
  /\ h \in [Definitions -> Nat]
  /\ Counted(m, Refs(m, h))
  /\ \A name \in FunctionNames :
       m.functions[name] # None => NameOf[m.functions[name]] = name

LEMMA RefsType ==
  ASSUME NEW m, NEW h \in [Definitions -> Nat]
  PROVE  Refs(m, h) \in [Definitions -> Nat]
BY DEF Refs, Tabled

LEMMA CallBegins ==
  ASSUME NEW m, NEW h, FunctionsOK(m, h), NEW d \in Definitions
  PROVE  FunctionsOK(Refer(m, d), [h EXCEPT ![d] = @ + 1])
<1> DEFINE n == Refer(m, d)
           k == [h EXCEPT ![d] = @ + 1]
<1>1. n = [m EXCEPT !.refcount = [m.refcount EXCEPT ![d] = @ + 1]]
  BY DEF Refer, FunctionsOK, Counted, Memories
<1>2. k \in [Definitions -> Nat]
  BY DEF FunctionsOK
<1> HIDE DEF n
<1>3. /\ n \in Memories /\ n.functions = m.functions /\ n.owner = m.owner
      /\ n.refcount = [m.refcount EXCEPT ![d] = @ + 1]
  BY <1>1 DEF FunctionsOK, Counted, Memories
<1>4. ASSUME NEW e \in Definitions
      PROVE  n.refcount[e] = Owned(n, e) + Refs(n, k)[e]
  <2>1. m.refcount[e] = Owned(m, e) + (Tabled(m, e) + h[e])
    BY DEF FunctionsOK, Counted, Refs
  <2>2. /\ n.refcount[e] = m.refcount[e] + (IF e = d THEN 1 ELSE 0)
        /\ k[e] = h[e] + (IF e = d THEN 1 ELSE 0)
        /\ h[e] \in Nat
    BY <1>3 DEF FunctionsOK, Counted, Memories
  <2>3. Owned(n, e) = Owned(m, e) /\ Tabled(n, e) = Tabled(m, e)
    BY <1>3 DEF Owned, Tabled
  <2>4. Owned(m, e) \in Nat /\ Tabled(m, e) \in Nat
    BY DEF Owned, Tabled
  <2>5. Refs(n, k)[e] = Tabled(n, e) + k[e]
    BY DEF Refs
  <2> HIDE DEF k
  <2> QED BY <2>1, <2>2, <2>3, <2>4, <2>5
<1> HIDE DEF k
<1>5. Counted(n, Refs(n, k))
  BY <1>2, <1>3, <1>4, RefsType DEF Counted
<1> QED BY <1>2, <1>3, <1>5 DEF FunctionsOK, n, k

LEMMA CallEnds ==
  ASSUME NEW m, NEW h, FunctionsOK(m, h), NEW d \in Definitions, h[d] > 0
  PROVE  FunctionsOK(Drop(m, {d}), [h EXCEPT ![d] = @ - 1])
<1> DEFINE n == Drop(m, {d})
           k == [h EXCEPT ![d] = @ - 1]
           x == Refs(m, h)
<1>1. k \in [Definitions -> Nat]
  BY DEF FunctionsOK
<1>2. x[d] > 0
  BY DEF Refs, Tabled, FunctionsOK
<1>3. Counted(m, x)
  BY DEF FunctionsOK
<1> HIDE DEF n, x
<1>4. Counted(n, Without(x, {d})) /\ n.functions = m.functions
  BY <1>2, <1>3, DropCounts DEF n
<1>5. Without(x, {d}) = Refs(n, k)
  BY <1>4 DEF Without, Refs, x, Tabled, FunctionsOK
<1> QED BY <1>1, <1>4, <1>5 DEF FunctionsOK, n

LEMMA TableRefers ==
  ASSUME NEW m, NEW h, FunctionsOK(m, h), NEW name \in FunctionNames,
         m.functions[name] # None
  PROVE  /\ m.functions[name] \in Definitions
         /\ NameOf[m.functions[name]] = name
         /\ Refs(m, h)[m.functions[name]] > 0
<1>1. m.functions[name] \in Definitions /\ NameOf[m.functions[name]] = name
  BY DEF FunctionsOK, Counted, Memories
<1>2. h[m.functions[name]] \in Nat
  BY <1>1 DEF FunctionsOK
<1> QED BY <1>1, <1>2 DEF Refs, Tabled

LEMMA UnsetCounts ==
  ASSUME NEW m, NEW h, FunctionsOK(m, h), NEW name \in FunctionNames
  PROVE  FunctionsOK(UnsetFunction(m, name), h)
<1> DEFINE old == m.functions[name]
           dropped == Drop(m, {old})
           n == [dropped EXCEPT !.functions[name] = None]
<1>1. CASE old = None
  BY <1>1 DEF UnsetFunction
<1>2. CASE old # None
  <2>1. UnsetFunction(m, name) = n
    BY <1>2 DEF UnsetFunction
  <2>2. old \in Definitions /\ NameOf[old] = name /\ Refs(m, h)[old] > 0
    BY <1>2, TableRefers
  <2>3. /\ Counted(dropped, Without(Refs(m, h), {old}))
        /\ dropped.functions = m.functions
    BY <2>2, DropCounts DEF FunctionsOK
  <2> HIDE DEF dropped
  <2>4. /\ n \in Memories
        /\ n.functions = [m.functions EXCEPT ![name] = None]
        /\ n.owner = dropped.owner /\ n.refcount = dropped.refcount
    BY <2>3 DEF Counted, Memories
  <2>5. m.functions \in [FunctionNames -> Definitions \cup {None}]
    BY DEF FunctionsOK, Counted, Memories
  <2>6. \A d \in Definitions : d # None /\ NameOf[d] \in FunctionNames
    BY FunctionsAssumption
  <2> HIDE DEF n
  <2>7. ASSUME NEW d \in Definitions
        PROVE  Without(Refs(m, h), {old})[d] = Refs(n, h)[d]
    <3>1. h[d] \in Nat
      BY DEF FunctionsOK
    <3>2. Tabled(n, d) = Tabled(m, d) - (IF d = old THEN 1 ELSE 0)
      BY <2>2, <2>4, <2>5, <2>6 DEF Tabled
    <3>3. Tabled(m, d) \in Nat
      BY DEF Tabled
    <3> HIDE DEF old
    <3> QED BY <3>1, <3>2, <3>3 DEF Without, Refs
  <2>8. Without(Refs(m, h), {old}) = Refs(n, h)
    BY <2>7 DEF Without, Refs
  <2>9. Counted(n, Refs(n, h))
    BY <2>3, <2>4, <2>8 DEF Counted, Owned
  <2>10. \A nm \in FunctionNames :
           n.functions[nm] # None => NameOf[n.functions[nm]] = nm
    BY <2>4, <2>5 DEF FunctionsOK
  <2> QED BY <2>1, <2>9, <2>10 DEF FunctionsOK
<1> QED BY <1>1, <1>2

LEMMA UnsetAllCounts ==
  ASSUME NEW m, NEW h, FunctionsOK(m, h)
  PROVE  FunctionsOK(UnsetFunctions(m), h)
<1> DEFINE all == {m.functions[name] : name \in FunctionNames} \ {None}
           dropped == Drop(m, all)
           none == [name \in FunctionNames |-> None]
           n == [dropped EXCEPT !.functions = none]
<1>1. UnsetFunctions(m) = n
  BY DEF UnsetFunctions
<1>2. \A d \in all : d \in Definitions /\ Refs(m, h)[d] > 0
  BY TableRefers
<1>3. Counted(dropped, Without(Refs(m, h), all))
  BY <1>2, DropCounts DEF FunctionsOK
<1>4. \A d \in Definitions : Tabled(m, d) = IF d \in all THEN 1 ELSE 0
  <2> SUFFICES ASSUME NEW d \in Definitions
               PROVE  m.functions[NameOf[d]] = d <=> d \in all
    BY DEF Tabled
  <2>1. d # None /\ NameOf[d] \in FunctionNames
    BY FunctionsAssumption
  <2>2. ASSUME d \in all PROVE m.functions[NameOf[d]] = d
    <3>1. PICK name \in FunctionNames : m.functions[name] = d
      BY <2>2
    <3>2. NameOf[d] = name
      BY <2>1, <3>1 DEF FunctionsOK
    <3> QED BY <3>1, <3>2
  <2> QED BY <2>1, <2>2
<1> HIDE DEF dropped, all, none
<1>5. /\ n.functions = none
      /\ n.owner = dropped.owner /\ n.refcount = dropped.refcount
  BY <1>3 DEF Counted, Memories
<1>6. none \in [FunctionNames -> Definitions \cup {None}]
  BY DEF none
<1>7. n \in Memories
  BY <1>3, <1>6 DEF Counted, Memories
<1> HIDE DEF n
<1>8. ASSUME NEW d \in Definitions
      PROVE  Without(Refs(m, h), all)[d] = Refs(n, h)[d]
  <2>1. h[d] \in Nat
    BY DEF FunctionsOK
  <2>2. Tabled(n, d) = 0
    BY <1>5, FunctionsAssumption DEF Tabled, none
  <2> QED BY <1>4, <2>1, <2>2 DEF Without, Refs
<1>9. Without(Refs(m, h), all) = Refs(n, h)
  BY <1>8 DEF Without, Refs
<1>10. Counted(n, Refs(n, h))
  BY <1>3, <1>5, <1>7, <1>9 DEF Counted, Owned
<1> QED BY <1>1, <1>5, <1>10 DEF FunctionsOK, none

LEMMA AddCounts ==
  ASSUME NEW m, NEW h, FunctionsOK(m, h), NEW d \in Definitions
  PROVE  FunctionsOK(AddFunction(m, d), h)
<1> DEFINE name == NameOf[d]
           old == m.functions[name]
           n == [Refer(m, d) EXCEPT !.functions[name] = d]
           x == [e \in Definitions |-> Refs(n, h)[e] + (IF e = old THEN 1 ELSE 0)]
<1>1. AddFunction(m, d) = IF old = None THEN n ELSE Drop(n, {old})
  BY DEF AddFunction
<1>2. /\ name \in FunctionNames /\ d # None
      /\ \A e \in Definitions : NameOf[e] \in FunctionNames
  BY FunctionsAssumption
<1>3. n = [m EXCEPT !.refcount = [m.refcount EXCEPT ![d] = @ + 1],
                    !.functions = [m.functions EXCEPT ![name] = d]]
  BY DEF Refer, FunctionsOK, Counted, Memories
<1> HIDE DEF n
<1>4. /\ n \in Memories /\ n.owner = m.owner
      /\ n.refcount = [m.refcount EXCEPT ![d] = @ + 1]
      /\ n.functions = [m.functions EXCEPT ![name] = d]
  <2> DEFINE refcount == [m.refcount EXCEPT ![d] = @ + 1]
             functions == [m.functions EXCEPT ![name] = d]
  <2>1. m \in Memories
    BY DEF FunctionsOK, Counted
  <2>2. refcount \in [Definitions -> Nat]
    BY <2>1 DEF Memories
  <2>3. functions \in [FunctionNames -> Definitions \cup {None}]
    BY <2>1 DEF Memories
  <2>4. n = [m EXCEPT !.refcount = refcount, !.functions = functions]
    BY <1>3
  <2> HIDE DEF refcount, functions
  <2>5. /\ n \in Memories /\ n.owner = m.owner
        /\ n.refcount = refcount /\ n.functions = functions
    BY <2>1, <2>2, <2>3, <2>4 DEF Memories
  <2> QED BY <2>5 DEF refcount, functions
<1>5. m.functions \in [FunctionNames -> Definitions \cup {None}]
  BY DEF FunctionsOK, Counted, Memories
<1>6. \A nm \in FunctionNames :
        n.functions[nm] # None => NameOf[n.functions[nm]] = nm
  BY <1>2, <1>4, <1>5 DEF FunctionsOK
<1>7. ASSUME NEW e \in Definitions
      PROVE  /\ n.refcount[e] = Owned(n, e) + x[e]
             /\ x[e] \in Nat
  <2>1. m.refcount[e] = Owned(m, e) + (Tabled(m, e) + h[e]) /\ h[e] \in Nat
    BY DEF FunctionsOK, Counted, Refs
  <2>2. n.refcount[e] = m.refcount[e] + (IF e = d THEN 1 ELSE 0)
    BY <1>4 DEF FunctionsOK, Counted, Memories
  <2>3. Owned(n, e) = Owned(m, e) /\ Owned(m, e) \in Nat
    BY <1>4 DEF Owned
  <2>4. CASE NameOf[e] = name
    <3>1. Tabled(m, e) = IF e = old THEN 1 ELSE 0
      BY <2>4 DEF Tabled
    <3>2. Tabled(n, e) = IF e = d THEN 1 ELSE 0
      BY <1>2, <1>4, <1>5, <2>4 DEF Tabled
    <3>3. x[e] = Tabled(n, e) + h[e] + (IF e = old THEN 1 ELSE 0)
      BY DEF Refs
    <3> HIDE DEF x, old
    <3> QED BY <2>1, <2>2, <2>3, <3>1, <3>2, <3>3
  <2>5. CASE NameOf[e] # name
    <3>1. Tabled(m, e) = Tabled(n, e) /\ Tabled(m, e) \in Nat
      BY <1>2, <1>4, <1>5, <2>5 DEF Tabled
    <3>2. e # d /\ e # old
      BY <1>2, <2>5, FunctionsAssumption DEF FunctionsOK
    <3>3. x[e] = Tabled(n, e) + h[e]
      BY <2>1, <3>1, <3>2 DEF Refs
    <3> HIDE DEF x, old, name
    <3> QED BY <2>1, <2>2, <2>3, <3>1, <3>2, <3>3
  <2> QED BY <2>4, <2>5
<1>8. Counted(n, x)
  <2>1. x \in [Definitions -> Nat]
    BY <1>7
  <2> HIDE DEF x
  <2> QED BY <1>4, <1>7, <2>1 DEF Counted
<1>9. \A e \in Definitions : Refs(n, h)[e] \in Nat
  BY RefsType DEF FunctionsOK
<1>10. CASE old = None
  <2>1. \A e \in Definitions : x[e] = Refs(n, h)[e]
    BY <1>9, <1>10, FunctionsAssumption
  <2>2. x = Refs(n, h)
    BY <2>1 DEF Refs
  <2> QED BY <1>1, <1>6, <1>8, <1>10, <2>2 DEF FunctionsOK
<1>11. CASE old # None
  <2>1. old \in Definitions
    BY <1>2, <1>5, <1>11
  <2>2. x[old] > 0
    BY <1>9, <2>1
  <2>3. \A e \in Definitions : Without(x, {old})[e] = Refs(n, h)[e]
    BY <1>9 DEF Without
  <2>4. Without(x, {old}) = Refs(n, h)
    BY <2>3 DEF Without, Refs
  <2> HIDE DEF x, old
  <2>5. /\ Counted(Drop(n, {old}), Refs(n, h))
        /\ Drop(n, {old}).functions = n.functions
    BY <1>8, <2>1, <2>2, <2>4, DropCounts
  <2>6. Refs(Drop(n, {old}), h) = Refs(n, h)
    BY <2>5 DEF Refs, Tabled
  <2> QED BY <1>1, <1>6, <1>11, <2>5, <2>6 DEF FunctionsOK
<1> QED BY <1>10, <1>11

(***************************************************************************)
(* A list that is freed owns nothing any more; as no definition is a list, *)
(* that changes nothing in which definitions are freed.                    *)
(***************************************************************************)
LEMMA FreeListsCounts ==
  ASSUME NEW m, NEW h, FunctionsOK(m, h), NEW lists \in SUBSET Lists
  PROVE  FunctionsOK(FreeLists(m, lists), h)
<1> DEFINE defined == {d \in Definitions : m.owner[d] \in lists}
           left == [d \in Definitions |-> IF d \in defined THEN None ELSE m.owner[d]]
           m2 == [m EXCEPT !.owner = left]
           x2 == [d \in Definitions |->
                    Refs(m, h)[d] + (IF d \in defined THEN 1 ELSE 0)]
           n2 == Drop(m2, defined)
           freed == Freed(m, defined)
<1>1. /\ m \in Memories
      /\ \A d \in Definitions : Refs(m, h)[d] \in Nat
      /\ \A d \in Definitions : m.refcount[d] = Owned(m, d) + Refs(m, h)[d]
  BY RefsType DEF FunctionsOK, Counted
<1>2. left \in [Definitions -> Definitions \cup Lists \cup {None}]
  BY <1>1 DEF Memories
<1>3. \A d \in defined : m.owner[d] # None /\ m.owner[d] \notin Definitions
  BY FunctionsAssumption
<1>4. defined \subseteq Definitions
  OBVIOUS
<1>5. \A d \in Definitions : left[d] = IF d \in defined THEN None ELSE m.owner[d]
  OBVIOUS
<1>6. \A d \in Definitions :
        x2[d] = Refs(m, h)[d] + (IF d \in defined THEN 1 ELSE 0)
  OBVIOUS
<1>7. x2 \in [Definitions -> Nat]
  BY <1>1
<1> HIDE DEF defined, left, x2
<1>8. /\ m2 \in Memories /\ m2.owner = left
      /\ m2.refcount = m.refcount /\ m2.functions = m.functions
  BY <1>1, <1>2 DEF Memories
<1> HIDE DEF m2
<1>9. Counted(m2, x2)
  <2> SUFFICES ASSUME NEW d \in Definitions
               PROVE  m2.refcount[d] = Owned(m2, d) + x2[d]
    BY <1>7, <1>8 DEF Counted
  <2>1. Owned(m2, d) = IF d \in defined THEN 0 ELSE Owned(m, d)
    BY <1>5, <1>8 DEF Owned
  <2>2. d \in defined => Owned(m, d) = 1
    BY <1>3 DEF Owned
  <2>3. Owned(m, d) \in Nat
    BY DEF Owned
  <2>4. m2.refcount[d] = Owned(m, d) + Refs(m, h)[d]
    BY <1>1, <1>8
  <2> QED BY <1>1, <1>6, <2>1, <2>2, <2>3, <2>4
<1>10. \A d \in defined : x2[d] > 0
  BY <1>1, <1>4, <1>6
<1>11. /\ Counted(n2, Without(x2, defined))
       /\ n2.functions = m.functions
  BY <1>4, <1>8, <1>9, <1>10, DropCounts
<1>12. Without(x2, defined) = Refs(m, h)
  <2>1. \A d \in Definitions : Without(x2, defined)[d] = Refs(m, h)[d]
    BY <1>1, <1>6 DEF Without
  <2> QED BY <2>1 DEF Without, Refs
<1>13. \A F \in SUBSET Definitions, d \in Definitions :
         Lost(m2, defined, F, d) = Lost(m, defined, F, d)
  BY <1>3, <1>5, <1>8, FunctionsAssumption DEF Lost
<1>14. Freed(m2, defined) = freed
  <2>1. \A F \in SUBSET Definitions :
          Closed(m2, defined, F) <=> Closed(m, defined, F)
    BY <1>8, <1>13 DEF Closed
  <2> QED BY <2>1, FreedIs
<1>15. freed \subseteq Definitions
  BY FreedIs
<1>16. FreeLists(m, lists) = n2
  <2> DEFINE refcount == [d \in Definitions |->
                            m.refcount[d] - Lost(m, defined, freed, d)]
             owner == [d \in Definitions |->
                         IF d \in freed \/ m.owner[d] \in freed THEN None
                         ELSE m.owner[d]]
             owner2 == [d \in Definitions |->
                          IF d \in freed \/ left[d] \in freed THEN None
                          ELSE left[d]]
             owner3 == [d \in Definitions |->
                          IF d \in defined THEN None ELSE owner[d]]
  <2>1. Drop(m, defined) = [m EXCEPT !.refcount = refcount, !.owner = owner]
    BY <1>1 DEF Drop, Memories
  <2>2. FreeLists(m, lists) =
          [m EXCEPT !.refcount = refcount, !.owner = owner3]
    <3>1. FreeLists(m, lists) =
            [Drop(m, defined) EXCEPT
               !.owner = [d \in Definitions |-> IF d \in defined THEN None ELSE @[d]]]
      BY DEF FreeLists, defined
    <3> HIDE DEF refcount, owner
    <3> QED BY <1>1, <2>1, <3>1 DEF Memories
  <2>3. n2 = [m2 EXCEPT !.refcount = refcount, !.owner = owner2]
    <3>1. n2 = [m2 EXCEPT
                  !.refcount = [d \in Definitions |->
                                  @[d] - Lost(m2, defined, freed, d)],
                  !.owner = [d \in Definitions |->
                               IF d \in freed \/ @[d] \in freed THEN None ELSE @[d]]]
      BY <1>14 DEF Drop
    <3>2. \A d \in Definitions :
            m2.refcount[d] - Lost(m2, defined, freed, d) = refcount[d]
      BY <1>8, <1>13, <1>15
    <3>3. [d \in Definitions |-> m2.refcount[d] - Lost(m2, defined, freed, d)]
            = refcount
      BY <3>2
    <3> HIDE DEF freed
    <3> QED BY <1>8, <3>1, <3>3 DEF Memories
  <2>4. owner2 = owner3
    BY <1>5, <1>15, FunctionsAssumption
  <2> HIDE DEF refcount, owner2, owner3
  <2> QED BY <1>1, <1>8, <2>2, <2>3, <2>4 DEF m2, Memories
<1>17. Refs(n2, h) = Refs(m, h)
  BY <1>11 DEF Refs, Tabled
<1> HIDE DEF n2
<1> QED BY <1>11, <1>12, <1>16, <1>17 DEF FunctionsOK

(***************************************************************************)
(* What is parsed takes places that nothing refers to.                     *)
(***************************************************************************)
LEMMA ParsedCounts ==
  ASSUME NEW m, NEW h, FunctionsOK(m, h), NEW list \in Lists,
         NEW ds \in SUBSET {d \in Definitions : m.refcount[d] = 0},
         NEW ownerOf \in [ds -> ds \cup {list}]
  PROVE  FunctionsOK(Parsed(m, ownerOf), h)
<1> DEFINE refcount == [d \in Definitions |->
                          IF d \in ds THEN 1 ELSE m.refcount[d]]
           owner == [d \in Definitions |->
                       IF d \in ds THEN ownerOf[d] ELSE m.owner[d]]
           n == Parsed(m, ownerOf)
<1>1. /\ m \in Memories
      /\ \A d \in Definitions : Refs(m, h)[d] \in Nat
      /\ \A d \in Definitions : m.refcount[d] = Owned(m, d) + Refs(m, h)[d]
  BY RefsType DEF FunctionsOK, Counted
<1>2. n = [m EXCEPT !.refcount = refcount, !.owner = owner]
  BY <1>1 DEF Parsed, Memories
<1>3. refcount \in [Definitions -> Nat]
  BY <1>1 DEF Memories
<1>4. owner \in [Definitions -> Definitions \cup Lists \cup {None}]
  BY <1>1 DEF Memories
<1> HIDE DEF n, refcount, owner
<1>5. /\ n \in Memories /\ n.refcount = refcount /\ n.owner = owner
      /\ n.functions = m.functions
  BY <1>1, <1>2, <1>3, <1>4 DEF Memories
<1>6. Refs(n, h) = Refs(m, h)
  BY <1>5 DEF Refs, Tabled
<1>7. ASSUME NEW d \in Definitions
      PROVE  n.refcount[d] = Owned(n, d) + Refs(m, h)[d]
  <2>1. CASE d \in ds
    <3>1. m.refcount[d] = 0
      BY <2>1
    <3>2. Refs(m, h)[d] = 0
      BY <1>1, <3>1 DEF Owned
    <3>3. n.refcount[d] = 1 /\ n.owner[d] = ownerOf[d]
      BY <1>5, <2>1 DEF refcount, owner
    <3>4. ownerOf[d] # None
      BY <2>1, FunctionsAssumption
    <3> QED BY <3>2, <3>3, <3>4 DEF Owned
  <2>2. CASE d \notin ds
    BY <1>1, <1>5, <2>2 DEF Owned, refcount, owner
  <2> QED BY <2>1, <2>2
<1>8. Counted(n, Refs(n, h))
  BY <1>5, <1>6, <1>7, RefsType DEF Counted, FunctionsOK
<1> QED BY <1>5, <1>8 DEF FunctionsOK, n

(***************************************************************************)
(* The calls among the commands that are executed.  Only the frame of a    *)
(* function has one, so only these count.                                  *)
(***************************************************************************)
GoodFrames ==
  {f \in Frames : IF f.kind = "function" THEN f.function \in Definitions
                  ELSE f.function = None}
Calls(r, d) == {i \in 1..Len(r) : r[i].function = d /\ r[i].started}
RunningOK(r) == r \in Seq(GoodFrames) /\ Len(r) <= MaxDepth
Held(r, a) == [d \in Definitions |-> Cardinality(Calls(r, d)) + a[d]]

LEMMA CallsAreFinite ==
  ASSUME NEW r \in Seq(GoodFrames), NEW d
  PROVE  IsFiniteSet(Calls(r, d)) /\ Cardinality(Calls(r, d)) \in Nat
<1>1. IsFiniteSet(1..Len(r))
  BY FS_Interval
<1>2. Calls(r, d) \in SUBSET (1..Len(r))
  BY DEF Calls
<1>3. IsFiniteSet(Calls(r, d))
  BY <1>1, <1>2, FS_Subset
<1> QED BY <1>3, FS_CardinalityType

LEMMA HeldType ==
  ASSUME NEW r \in Seq(GoodFrames), NEW a \in [Definitions -> Nat]
  PROVE  Held(r, a) \in [Definitions -> Nat]
BY CallsAreFinite DEF Held

LEMMA SameCalls ==
  ASSUME NEW r, NEW s, NEW a,
         \A d \in Definitions : Calls(s, d) = Calls(r, d)
  PROVE  Held(s, a) = Held(r, a)
BY DEF Held

\* A frame that is no call, put in the place of the innermost one or added.
NoCall(f) == f \in GoodFrames /\ (f.function = None \/ ~f.started)

LEMMA FramesAre ==
  ASSUME NEW kind \in Kinds, NEW function \in Definitions \cup {None},
         NEW started \in BOOLEAN, NEW done \in BOOLEAN
  PROVE  [kind |-> kind, function |-> function, made |-> 0,
          started |-> started, done |-> done] \in Frames
BY DEF Frames

LEMMA FramesStart ==
  ASSUME NEW kind \in {"list", "special", "regular", "utility"}
  PROVE  NoCall(Frame(kind, None))
<1> DEFINE f == Frame(kind, None)
           started == kind = "list"
           done == FALSE
<1>1. started \in BOOLEAN /\ done \in BOOLEAN /\ kind \in Kinds
  BY DEF Kinds
<1>2. f = [kind |-> kind, function |-> None, made |-> 0,
           started |-> started, done |-> done]
  BY DEF Frame
<1> HIDE DEF started, done, f
<1>3. f \in Frames
  BY <1>1, <1>2, FramesAre
<1>4. f.kind # "function" /\ f.function = None
  BY <1>2
<1> QED BY <1>3, <1>4 DEF NoCall, GoodFrames, f

LEMMA FunctionFrames ==
  ASSUME NEW d \in Definitions
  PROVE  NoCall(Frame("function", d))
<1> DEFINE f == Frame("function", d)
           started == "function" = "list"
           done == FALSE
<1>1. started \in BOOLEAN /\ done \in BOOLEAN /\ "function" \in Kinds /\ ~started
  BY DEF Kinds
<1>2. f = [kind |-> "function", function |-> d, made |-> 0,
           started |-> started, done |-> done]
  BY DEF Frame
<1> HIDE DEF started, done, f
<1>3. f \in Frames
  BY <1>1, <1>2, FramesAre
<1>4. f.kind = "function" /\ f.function = d /\ ~f.started
  BY <1>1, <1>2
<1> QED BY <1>3, <1>4 DEF NoCall, GoodFrames, f

LEMMA Entered ==
  ASSUME NEW r, RunningOK(r), Len(r) < MaxDepth, NEW f, NoCall(f), NEW a
  PROVE  RunningOK(Append(r, f)) /\ Held(Append(r, f), a) = Held(r, a)
<1> DEFINE s == Append(r, f)
<1>1. /\ s \in Seq(GoodFrames) /\ Len(s) = Len(r) + 1 /\ Len(r) \in Nat
      /\ \A i \in 1..Len(r) : s[i] = r[i]
      /\ s[Len(r) + 1] = f
  BY DEF RunningOK, NoCall
<1> HIDE DEF s
<1>2. RunningOK(s)
  BY <1>1, DefinitionsAssumption DEF RunningOK
<1>3. ASSUME NEW d \in Definitions PROVE Calls(s, d) = Calls(r, d)
  <2>1. ~(f.function = d /\ f.started)
    BY FunctionsAssumption DEF NoCall
  <2>2. \A i : i \in 1..Len(s) <=> i \in 1..Len(r) \/ i = Len(r) + 1
    BY <1>1
  <2> QED BY <1>1, <2>1, <2>2 DEF Calls
<1> QED BY <1>2, <1>3, SameCalls DEF s

OuterOf(r) == SubSeq(r, 1, Len(r) - 1)

LEMMA OuterIs ==
  ASSUME NEW r, RunningOK(r), Len(r) > 0
  PROVE  /\ RunningOK(OuterOf(r)) /\ Len(OuterOf(r)) = Len(r) - 1
         /\ \A i \in 1..Len(r) - 1 : OuterOf(r)[i] = r[i]
<1> DEFINE o == OuterOf(r)
           n == Len(r) - 1
<1>1. n \in Nat /\ n < MaxDepth /\ \A i \in 1..n : r[i] \in GoodFrames
  BY DefinitionsAssumption DEF RunningOK
<1>2. o = SubSeq(r, 1, n)
  BY DEF OuterOf
<1> HIDE DEF n, o
<1>3. /\ o \in Seq(GoodFrames)
      /\ Len(o) = IF 1 <= n THEN n - 1 + 1 ELSE 0
      /\ \A i \in 1..n - 1 + 1 : o[i] = r[1 + i - 1]
  BY <1>1, <1>2, SubSeqProperties
<1>4. Len(o) = n
  BY <1>1, <1>3
<1>5. \A i \in 1..n : o[i] = r[i]
  <2>1. n - 1 + 1 = n /\ \A i \in 1..n : 1 + i - 1 = i
    BY <1>1
  <2> QED BY <1>3, <2>1
<1>6. RunningOK(o)
  BY <1>1, <1>3, <1>4, DefinitionsAssumption DEF RunningOK
<1> QED BY <1>4, <1>5, <1>6 DEF o, n

LEMMA Left ==
  ASSUME NEW r, RunningOK(r), Len(r) > 0, NEW d
  PROVE  Calls(OuterOf(r), d) = Calls(r, d) \ {Len(r)}
<1>1. /\ Len(OuterOf(r)) = Len(r) - 1 /\ Len(r) \in Nat
      /\ \A i \in 1..Len(r) - 1 : OuterOf(r)[i] = r[i]
  BY OuterIs DEF RunningOK
<1>2. \A i : i \in 1..Len(r) - 1 <=> i \in 1..Len(r) /\ i # Len(r)
  BY <1>1
<1> QED BY <1>1, <1>2 DEF Calls

LEMMA LeftNoCall ==
  ASSUME NEW r, RunningOK(r), Len(r) > 0, NoCall(r[Len(r)]), NEW a
  PROVE  Held(OuterOf(r), a) = Held(r, a)
<1>1. ASSUME NEW d \in Definitions PROVE Calls(OuterOf(r), d) = Calls(r, d)
  <2>1. Len(r) \notin Calls(r, d)
    BY FunctionsAssumption DEF Calls, NoCall
  <2> QED BY <2>1, Left
<1> QED BY <1>1, SameCalls

LEMMA TopIsGood ==
  ASSUME NEW r, RunningOK(r), Len(r) > 0
  PROVE  /\ r[Len(r)] \in GoodFrames
         /\ r[Len(r)].kind # "function" => NoCall(r[Len(r)])
<1>1. r[Len(r)] \in GoodFrames
  BY DEF RunningOK
<1> QED BY <1>1 DEF NoCall, GoodFrames

LEMMA FinishedIsNoCall ==
  ASSUME RunningOK(running), Depth > 0, Top.kind # "function"
  PROVE  NoCall(Finished)
<1> DEFINE yes == TRUE
<1>1. Top \in GoodFrames
  BY TopIsGood DEF Depth, Top
<1>2. Finished = [Top EXCEPT !.started = yes, !.done = yes] /\ yes \in BOOLEAN
  BY DEF Finished
<1> HIDE DEF yes
<1>3. /\ Top \in Frames /\ Top.function = None
  BY <1>1 DEF GoodFrames
<1>4. /\ Finished \in Frames /\ Finished.function = None
      /\ Finished.kind = Top.kind
  BY <1>2, <1>3 DEF Frames
<1> QED BY <1>4 DEF NoCall, GoodFrames

\* The innermost frame, which is no call, is left, or finished, or enters
\* another one that is no call.
LEMMA LeavesNoCall ==
  ASSUME NEW r, RunningOK(r), Len(r) > 0, NoCall(r[Len(r)]), NEW a
  PROVE  RunningOK(OuterOf(r)) /\ Held(OuterOf(r), a) = Held(r, a)
BY OuterIs, LeftNoCall

LEMMA Replaces ==
  ASSUME NEW r, RunningOK(r), Len(r) > 0, NoCall(r[Len(r)]), NEW f, NoCall(f), NEW a
  PROVE  /\ RunningOK(Append(OuterOf(r), f))
         /\ Held(Append(OuterOf(r), f), a) = Held(r, a)
<1>1. RunningOK(OuterOf(r)) /\ Held(OuterOf(r), a) = Held(r, a)
  BY LeavesNoCall
<1>2. Len(OuterOf(r)) < MaxDepth
  BY OuterIs, DefinitionsAssumption DEF RunningOK
<1> QED BY <1>1, <1>2, Entered

LEMMA TwoAppended ==
  ASSUME NEW S, NEW r \in Seq(S), NEW x \in S, NEW y \in S
  PROVE  r \o << x, y >> = Append(Append(r, x), y)
OBVIOUS

LEMMA ReplacesAndEnters ==
  ASSUME NEW r, RunningOK(r), Len(r) > 0, Len(r) < MaxDepth, NoCall(r[Len(r)]),
         NEW f, NoCall(f), NEW g, NoCall(g), NEW a
  PROVE  /\ RunningOK(OuterOf(r) \o << f, g >>)
         /\ Held(OuterOf(r) \o << f, g >>, a) = Held(r, a)
<1> DEFINE s == Append(OuterOf(r), f)
<1>1. RunningOK(s) /\ Held(s, a) = Held(r, a)
  BY Replaces
<1>2. RunningOK(OuterOf(r)) /\ Len(OuterOf(r)) = Len(r) - 1
  BY OuterIs
<1>3. Len(s) < MaxDepth
  BY <1>2, DefinitionsAssumption DEF RunningOK, NoCall
<1>4. OuterOf(r) \o << f, g >> = Append(s, g)
  BY <1>2, TwoAppended DEF RunningOK, NoCall
<1> HIDE DEF s
<1>5. RunningOK(Append(s, g)) /\ Held(Append(s, g), a) = Held(s, a)
  BY <1>1, <1>3, Entered
<1> QED BY <1>1, <1>4, <1>5

(***************************************************************************)
(* The invariant: the counts agree with the table and with the calls.      *)
(***************************************************************************)
FunctionsInv ==
  /\ RunningOK(running)
  /\ abandoned \in [Definitions -> Nat]
  /\ FunctionsOK(memory, Held(running, abandoned))

LEMMA InvGivesTypes ==
  ASSUME FunctionsInv
  PROVE  /\ memory \in Memories
         /\ running \in Seq(Frames)
         /\ abandoned \in [Definitions -> Nat]
<1>1. memory \in Memories /\ running \in Seq(GoodFrames)
  BY DEF FunctionsInv, FunctionsOK, Counted, RunningOK
<1>2. GoodFrames \subseteq Frames
  BY DEF GoodFrames
<1> QED BY <1>1, <1>2 DEF FunctionsInv

LEMMA InvCounts ==
  ASSUME FunctionsInv
  PROVE  ReferencesAreCounted
<1> SUFFICES ASSUME NEW d \in Definitions
             PROVE  memory.refcount[d] =
                      (IF memory.owner[d] # None THEN 1 ELSE 0)
                        + (IF memory.functions[NameOf[d]] = d THEN 1 ELSE 0)
                        + Cardinality(Calls(running, d)) + abandoned[d]
  BY DEF ReferencesAreCounted, Calls, Depth
<1>1. memory.refcount[d] = Owned(memory, d) + Refs(memory, Held(running, abandoned))[d]
  BY DEF FunctionsInv, FunctionsOK, Counted
<1>2. Refs(memory, Held(running, abandoned))[d] =
        Tabled(memory, d) + (Cardinality(Calls(running, d)) + abandoned[d])
  BY DEF Refs, Held
<1>3. Cardinality(Calls(running, d)) \in Nat /\ abandoned[d] \in Nat
  BY CallsAreFinite DEF FunctionsInv, RunningOK
<1>4. Owned(memory, d) \in Nat /\ Tabled(memory, d) \in Nat
  BY DEF Owned, Tabled
<1>5. memory.refcount[d] = Owned(memory, d) + Tabled(memory, d)
                             + Cardinality(Calls(running, d)) + abandoned[d]
  BY <1>1, <1>2, <1>3, <1>4
<1> QED BY <1>5 DEF Owned, Tabled

LEMMA InvStarts ==
  ASSUME Init
  PROVE  FunctionsInv
<1> DEFINE h == Held(running, abandoned)
<1>1. running = <<>> /\ abandoned = [d \in Definitions |-> 0]
  BY DEF Init
<1>2. RunningOK(running)
  BY <1>1, DefinitionsAssumption DEF RunningOK
<1>3. \A d \in Definitions : Calls(running, d) = {}
  BY <1>1 DEF Calls
<1>4. \A d \in Definitions : h[d] = 0
  BY <1>1, <1>3, FS_EmptySet DEF Held
<1>5. memory = [refcount |-> [d \in Definitions |-> 0],
                owner |-> [d \in Definitions |-> None],
                functions |-> [name \in FunctionNames |-> None]]
  BY DEF Init
<1>6. memory \in Memories
  BY <1>5 DEF Memories
<1>7. \A d \in Definitions : Tabled(memory, d) = 0 /\ Owned(memory, d) = 0
  BY <1>5, FunctionsAssumption DEF Tabled, Owned
<1>8. h \in [Definitions -> Nat]
  BY <1>1, <1>2, HeldType DEF RunningOK
<1> HIDE DEF h
<1>9. Counted(memory, Refs(memory, h))
  <2>1. \A d \in Definitions : Refs(memory, h)[d] = 0
    BY <1>4, <1>7 DEF Refs
  <2> QED BY <1>5, <1>6, <1>7, <1>8, <2>1, RefsType DEF Counted
<1>10. \A name \in FunctionNames : memory.functions[name] = None
  BY <1>5
<1> QED BY <1>1, <1>2, <1>8, <1>9, <1>10 DEF FunctionsInv, FunctionsOK, h

\* A step that begins and ends no call, and keeps the counts right.
LEMMA Keeping ==
  ASSUME FunctionsInv, UNCHANGED abandoned, RunningOK(running'),
         Held(running', abandoned) = Held(running, abandoned),
         FunctionsOK(memory', Held(running, abandoned))
  PROVE  FunctionsInv'
BY DEF FunctionsInv

LEMMA ParseCounts ==
  ASSUME FunctionsInv, NEW list \in Lists, Parse(list)
  PROVE  FunctionsOK(memory', Held(running, abandoned))
<1>1. PICK ds \in SUBSET {d \in Definitions : memory.refcount[d] = 0} :
             \E ownerOf \in [ds -> ds \cup {list}] : memory' = Parsed(memory, ownerOf)
  BY DEF Parse
<1>2. PICK ownerOf \in [ds -> ds \cup {list}] : memory' = Parsed(memory, ownerOf)
  BY <1>1
<1>3. FunctionsOK(memory, Held(running, abandoned))
  BY DEF FunctionsInv
<1> DEFINE h == Held(running, abandoned)
<1> HIDE DEF h
<1>4. FunctionsOK(Parsed(memory, ownerOf), h)
  BY <1>3, ParsedCounts DEF h
<1> QED BY <1>2, <1>4 DEF h

LEMMA ReadListSteps ==
  ASSUME FunctionsInv, ReadList
  PROVE  FunctionsInv'
<1>1. /\ Depth = 0 /\ Depth < MaxDepth /\ Parse(1)
      /\ running' = Append(running, Frame("list", None)) /\ UNCHANGED abandoned
  BY DEF ReadList, Enter
<1>2. 1 \in Lists
  BY <1>1, DefinitionsAssumption
<1>3. FunctionsOK(memory', Held(running, abandoned))
  BY <1>1, <1>2, ParseCounts
<1>4. /\ RunningOK(running')
      /\ Held(running', abandoned) = Held(running, abandoned)
  BY <1>1, FramesStart, Entered DEF FunctionsInv, Depth
<1> QED BY <1>1, <1>3, <1>4, Keeping

LEMMA EvalSteps ==
  ASSUME FunctionsInv, Eval
  PROVE  FunctionsInv'
<1>1. /\ Depth > 0 /\ Top.kind = "special" /\ Depth < MaxDepth /\ Parse(Depth + 1)
      /\ running' = Outer \o << Finished, Frame("list", None) >>
      /\ UNCHANGED abandoned
  BY DEF Eval, Starts
<1>2. Depth + 1 \in Lists
  BY <1>1, DefinitionsAssumption DEF FunctionsInv, RunningOK, Depth
<1>3. FunctionsOK(memory', Held(running, abandoned))
  BY <1>1, <1>2, ParseCounts
<1>4. NoCall(Finished) /\ NoCall(Frame("list", None)) /\ NoCall(Top)
  BY <1>1, FinishedIsNoCall, FramesStart, TopIsGood DEF FunctionsInv, Depth, Top
<1>5. /\ RunningOK(running')
      /\ Held(running', abandoned) = Held(running, abandoned)
  BY <1>1, <1>4, ReplacesAndEnters DEF FunctionsInv, Depth, Top, Outer, OuterOf
<1> QED BY <1>1, <1>3, <1>5, Keeping

LEMMA EndListSteps ==
  ASSUME FunctionsInv, EndList
  PROVE  FunctionsInv'
<1>1. /\ Depth > 0 /\ Top.kind = "list" /\ memory' = FreeLists(memory, {Depth})
      /\ running' = Outer /\ UNCHANGED abandoned
  BY DEF EndList, Executes
<1>2. {Depth} \in SUBSET Lists
  BY <1>1, DefinitionsAssumption DEF FunctionsInv, RunningOK, Depth
<1>3. FunctionsOK(memory', Held(running, abandoned))
  BY <1>1, <1>2, FreeListsCounts DEF FunctionsInv
<1>4. NoCall(Top)
  BY <1>1, TopIsGood DEF FunctionsInv, Depth, Top
<1>5. /\ RunningOK(running')
      /\ Held(running', abandoned) = Held(running, abandoned)
  BY <1>1, <1>4, LeavesNoCall DEF FunctionsInv, Depth, Top, Outer, OuterOf
<1> QED BY <1>1, <1>3, <1>5, Keeping

LEMMA DefineSteps ==
  ASSUME FunctionsInv, DefineFunction
  PROVE  FunctionsInv'
<1>1. PICK d \in Definitions : memory' = AddFunction(memory, d)
  BY DEF DefineFunction
<1>2. FunctionsOK(memory', Held(running, abandoned))
  BY <1>1, AddCounts DEF FunctionsInv
<1>3. running' = running /\ UNCHANGED abandoned
  BY DEF DefineFunction
<1> QED BY <1>2, <1>3, Keeping DEF FunctionsInv

LEMMA BeginCommandSteps ==
  ASSUME FunctionsInv, BeginCommand
  PROVE  FunctionsInv'
<1>1. PICK f : NoCall(f) /\ Enter(f)
  <2>1. ASSUME NEW name \in FunctionNames, memory.functions[name] # None
        PROVE  NoCall(Frame("function", memory.functions[name]))
    <3>1. memory.functions[name] \in Definitions
      BY <2>1, InvGivesTypes DEF Memories
    <3> QED BY <3>1, FunctionFrames
  <2>2. \A kind \in {"special", "regular", "utility"} : NoCall(Frame(kind, None))
    BY FramesStart
  <2> QED BY <2>1, <2>2 DEF BeginCommand
<1>2. /\ RunningOK(running')
      /\ Held(running', abandoned) = Held(running, abandoned)
  BY <1>1, Entered DEF FunctionsInv, Enter, Depth
<1>3. UNCHANGED << memory, abandoned >>
  BY DEF BeginCommand
<1> QED BY <1>2, <1>3, Keeping DEF FunctionsInv

\* The innermost frame changes in place.
Changed(r, f) == [r EXCEPT ![Len(r)] = f]

LEMMA Changes ==
  ASSUME NEW r, RunningOK(r), Len(r) > 0, NEW f \in GoodFrames
  PROVE  /\ RunningOK(Changed(r, f)) /\ Len(Changed(r, f)) = Len(r)
         /\ Changed(r, f)[Len(r)] = f
         /\ \A i \in 1..Len(r) : i # Len(r) => Changed(r, f)[i] = r[i]
<1>1. Len(r) \in 1..Len(r)
  BY DEF RunningOK
<1> QED BY <1>1, ExceptSeq DEF RunningOK, Changed

LEMMA AssignSteps ==
  ASSUME FunctionsInv, Assign
  PROVE  FunctionsInv'
<1> DEFINE f == [Top EXCEPT !.made = @ + 1]
<1>1. /\ Depth > 1 /\ ~Top.started
      /\ running' = [running EXCEPT ![Depth].made = @ + 1]
      /\ UNCHANGED << memory, abandoned >>
  BY DEF Assign
<1>2. RunningOK(running) /\ Len(running) > 0
  BY <1>1 DEF FunctionsInv, Depth, RunningOK
<1>3. Top \in GoodFrames
  BY <1>2, TopIsGood DEF Depth, Top
<1>4. /\ f \in GoodFrames /\ f.function = Top.function /\ f.started = Top.started
  BY <1>3 DEF GoodFrames, Frames
<1>5. running' = Changed(running, f)
  BY <1>1, <1>2 DEF Changed, Depth, Top
<1> HIDE DEF f
<1>6. /\ RunningOK(running') /\ Len(running') = Len(running)
      /\ running'[Len(running)] = f
      /\ \A i \in 1..Len(running) : i # Len(running) => running'[i] = running[i]
  BY <1>2, <1>4, <1>5, Changes
<1>7. \A d \in Definitions : Calls(running', d) = Calls(running, d)
  BY <1>4, <1>6 DEF Calls, Depth, Top
<1>8. Held(running', abandoned) = Held(running, abandoned)
  BY <1>7, SameCalls
<1> QED BY <1>1, <1>6, <1>8, Keeping DEF FunctionsInv

LEMMA OneCounts ==
  ASSUME NEW h \in [Definitions -> Nat], NEW k, NEW d, NEW c \in {-1, 1},
         k = [e \in Definitions |-> h[e] + (IF e = d THEN c ELSE 0)]
  PROVE  k = [h EXCEPT ![d] = @ + c]
OBVIOUS

LEMMA CallSteps ==
  ASSUME FunctionsInv, CallFunction
  PROVE  FunctionsInv'
<1> DEFINE yes == TRUE
           f == [Top EXCEPT !.started = yes]
           d == Top.function
           h == Held(running, abandoned)
<1>1. /\ Depth > 0 /\ Top.kind = "function" /\ ~Top.started
      /\ memory' = Refer(memory, d)
      /\ running' = [running EXCEPT ![Depth].started = yes]
      /\ UNCHANGED abandoned
  BY DEF CallFunction, Starts
<1>2. RunningOK(running) /\ Len(running) > 0 /\ Len(running) \in Nat
  BY <1>1 DEF FunctionsInv, Depth, RunningOK
<1>3. Top \in GoodFrames /\ d \in Definitions
  BY <1>1, <1>2, TopIsGood DEF Depth, Top, GoodFrames
<1>4. yes \in BOOLEAN /\ yes
  OBVIOUS
<1>5. running' = Changed(running, f)
  BY <1>1, <1>2 DEF Changed, Depth, Top
<1> HIDE DEF yes
<1>6. f \in GoodFrames /\ f.function = d /\ f.started = yes
  BY <1>3, <1>4 DEF GoodFrames, Frames
<1> HIDE DEF f, d
<1>7. /\ RunningOK(running') /\ Len(running') = Len(running)
      /\ running'[Len(running)] = f
      /\ \A i \in 1..Len(running) : i # Len(running) => running'[i] = running[i]
  BY <1>2, <1>5, <1>6, Changes
<1>8. \A e \in Definitions :
        Calls(running', e) = IF e = d THEN Calls(running, e) \cup {Len(running)}
                             ELSE Calls(running, e)
  <2> SUFFICES ASSUME NEW e \in Definitions
               PROVE  Calls(running', e) =
                        IF e = d THEN Calls(running, e) \cup {Len(running)}
                        ELSE Calls(running, e)
    OBVIOUS
  <2>1. running[Len(running)].function = d /\ ~running[Len(running)].started
    BY <1>1 DEF Top, Depth, d
  <2>2. running'[Len(running)].function = d /\ running'[Len(running)].started
    BY <1>4, <1>6, <1>7
  <2>3. ASSUME NEW i \in 1..Len(running)
        PROVE  running'[i].function = e /\ running'[i].started
                 <=> \/ running[i].function = e /\ running[i].started
                     \/ i = Len(running) /\ e = d
    BY <1>7, <2>1, <2>2
  <2> QED BY <1>2, <1>7, <2>3 DEF Calls
<1>9. Len(running) \notin Calls(running, d)
  BY <1>1 DEF Calls, Top, Depth
<1>10. Held(running', abandoned) = [h EXCEPT ![d] = @ + 1]
  <2>1. ASSUME NEW e \in Definitions
        PROVE  Held(running', abandoned)[e] = h[e] + (IF e = d THEN 1 ELSE 0)
    <3>1. IsFiniteSet(Calls(running, e)) /\ Cardinality(Calls(running, e)) \in Nat
      BY <1>2, CallsAreFinite DEF RunningOK
    <3>2. Cardinality(Calls(running', e)) =
            Cardinality(Calls(running, e)) + (IF e = d THEN 1 ELSE 0)
      BY <1>8, <1>9, <3>1, FS_AddElement
    <3>3. abandoned[e] \in Nat
      BY DEF FunctionsInv
    <3> QED BY <3>1, <3>2, <3>3 DEF Held
  <2>2. h \in [Definitions -> Nat]
    BY <1>2, HeldType DEF FunctionsInv, RunningOK
  <2> DEFINE k == Held(running', abandoned)
  <2>3. k = [e \in Definitions |-> k[e]]
    BY DEF Held
  <2> HIDE DEF h, k
  <2>4. k = [e \in Definitions |-> h[e] + (IF e = d THEN 1 ELSE 0)]
    BY <2>1, <2>3 DEF k
  <2>5. k = [h EXCEPT ![d] = @ + 1]
    BY <2>2, <2>4, OneCounts
  <2> QED BY <2>5 DEF k
<1>11. FunctionsOK(memory', Held(running', abandoned))
  BY <1>1, <1>3, <1>10, CallBegins DEF FunctionsInv
<1> QED BY <1>1, <1>7, <1>11 DEF FunctionsInv

LEMMA EndFunctionSteps ==
  ASSUME FunctionsInv, EndFunction
  PROVE  FunctionsInv'
<1> DEFINE d == Top.function
           h == Held(running, abandoned)
<1>1. /\ Depth > 0 /\ Top.kind = "function" /\ Top.started
      /\ memory' = Drop(memory, {d}) /\ running' = OuterOf(running)
      /\ UNCHANGED abandoned
  BY DEF EndFunction, Executes, Outer, OuterOf, Depth
<1>2. RunningOK(running) /\ Len(running) > 0 /\ Len(running) \in Nat
  BY <1>1 DEF FunctionsInv, Depth, RunningOK
<1>3. d \in Definitions
  BY <1>1, <1>2, TopIsGood DEF Depth, Top, GoodFrames
<1>4. \A e \in Definitions : Len(running) \in Calls(running, e) <=> e = d
  BY <1>1, <1>2 DEF Calls, Top, Depth
<1>5. \A e \in Definitions : Calls(running', e) = Calls(running, e) \ {Len(running)}
  BY <1>1, <1>2, Left
<1> HIDE DEF d
<1>6. ASSUME NEW e \in Definitions
      PROVE  /\ Held(running', abandoned)[e] = h[e] - (IF e = d THEN 1 ELSE 0)
             /\ e = d => h[e] > 0
  <2>1. IsFiniteSet(Calls(running, e)) /\ Cardinality(Calls(running, e)) \in Nat
    BY <1>2, CallsAreFinite DEF RunningOK
  <2>2. Cardinality(Calls(running', e)) =
          Cardinality(Calls(running, e)) - (IF e = d THEN 1 ELSE 0)
    BY <1>4, <1>5, <2>1, FS_RemoveElement
  <2>3. abandoned[e] \in Nat
    BY DEF FunctionsInv
  <2>4. e = d => Cardinality(Calls(running, e)) > 0
    BY <1>4, <2>1, FS_EmptySet
  <2> QED BY <2>1, <2>2, <2>3, <2>4 DEF Held
<1>7. h \in [Definitions -> Nat]
  BY <1>2, HeldType DEF FunctionsInv, RunningOK
<1>8. Held(running', abandoned) = [h EXCEPT ![d] = @ - 1]
  <2> DEFINE k == Held(running', abandoned)
  <2>1. k = [e \in Definitions |-> k[e]]
    BY DEF Held
  <2> HIDE DEF h, k
  <2>2. \A e \in Definitions : k[e] = h[e] + (IF e = d THEN -1 ELSE 0)
    BY <1>6, <1>7 DEF k
  <2>3. k = [e \in Definitions |-> h[e] + (IF e = d THEN -1 ELSE 0)]
    BY <2>1, <2>2
  <2>4. k = [h EXCEPT ![d] = @ + -1]
    BY <1>7, <2>3, OneCounts
  <2>5. h[d] + -1 = h[d] - 1
    BY <1>3, <1>7
  <2> QED BY <2>4, <2>5 DEF k
<1>9. FunctionsOK(memory, h) /\ h[d] > 0
  BY <1>3, <1>6 DEF FunctionsInv
<1> HIDE DEF h
<1>10. FunctionsOK(Drop(memory, {d}), [h EXCEPT ![d] = @ - 1])
  BY <1>3, <1>9, CallEnds
<1>11. RunningOK(running')
  BY <1>1, <1>2, OuterIs
<1> QED BY <1>1, <1>8, <1>10, <1>11 DEF FunctionsInv

LEMMA CommandSteps ==
  ASSUME FunctionsInv, CommandBuiltin
  PROVE  FunctionsInv'
<1>1. PICK kind \in {"special", "regular", "utility"} :
        running' = Outer \o << Finished, Frame(kind, None) >>
  BY DEF CommandBuiltin
<1>2. /\ Depth > 0 /\ Top.kind = "regular" /\ Depth < MaxDepth
      /\ UNCHANGED << memory, abandoned >>
  BY DEF CommandBuiltin, Starts
<1>3. NoCall(Finished) /\ NoCall(Frame(kind, None)) /\ NoCall(Top)
  BY <1>2, FinishedIsNoCall, FramesStart, TopIsGood DEF FunctionsInv, Depth, Top
<1>4. /\ RunningOK(running')
      /\ Held(running', abandoned) = Held(running, abandoned)
  BY <1>1, <1>2, <1>3, ReplacesAndEnters
     DEF FunctionsInv, Depth, Top, Outer, OuterOf
<1> QED BY <1>2, <1>4, Keeping DEF FunctionsInv

LEMMA BuiltinSteps ==
  ASSUME FunctionsInv, ReadVariable \/ ExportVariable \/ Unset
  PROVE  FunctionsInv'
<1>1. /\ Depth > 0 /\ Top.kind \in {"regular", "special"}
      /\ running' = Append(OuterOf(running), Finished) /\ UNCHANGED abandoned
  BY DEF ReadVariable, ExportVariable, Unset, Starts, Finish, Outer, OuterOf, Depth
<1>2. NoCall(Finished) /\ NoCall(Top)
  BY <1>1, FinishedIsNoCall, TopIsGood DEF FunctionsInv, Depth, Top
<1>3. /\ RunningOK(running')
      /\ Held(running', abandoned) = Held(running, abandoned)
  BY <1>1, <1>2, Replaces DEF FunctionsInv, Depth, Top
<1>4. memory' = memory \/ \E name \in FunctionNames : memory' = UnsetFunction(memory, name)
  BY DEF ReadVariable, ExportVariable, Unset
<1>5. FunctionsOK(memory', Held(running, abandoned))
  BY <1>4, UnsetCounts DEF FunctionsInv
<1> QED BY <1>1, <1>3, <1>5, Keeping

LEMMA EndCommandSteps ==
  ASSUME FunctionsInv, EndCommand
  PROVE  FunctionsInv'
<1>1. /\ Depth > 0 /\ Top.kind # "function" /\ running' = OuterOf(running)
      /\ UNCHANGED << memory, abandoned >>
  BY DEF EndCommand, Outer, OuterOf, Depth
<1>2. NoCall(Top)
  BY <1>1, TopIsGood DEF FunctionsInv, Depth, Top
<1>3. /\ RunningOK(running')
      /\ Held(running', abandoned) = Held(running, abandoned)
  BY <1>1, <1>2, LeavesNoCall DEF FunctionsInv, Depth, Top
<1> QED BY <1>1, <1>3, Keeping DEF FunctionsInv

\* The calls that are cut off keep their references.
LEMMA ScriptSteps ==
  ASSUME FunctionsInv, ExecuteScript
  PROVE  FunctionsInv'
<1> DEFINE h == Held(running, abandoned)
<1>1. /\ memory' = UnsetFunctions(FreeLists(memory, Lists))
      /\ abandoned' = [d \in Definitions |->
                         abandoned[d] + Cardinality(Calls(running, d))]
      /\ running' = <<>>
  BY DEF ExecuteScript, Calls, Depth
<1>2. RunningOK(running')
  BY <1>1, DefinitionsAssumption DEF RunningOK
<1>3. \A d \in Definitions : Cardinality(Calls(running, d)) \in Nat
  BY CallsAreFinite DEF FunctionsInv, RunningOK
<1>4. abandoned \in [Definitions -> Nat] /\ abandoned' \in [Definitions -> Nat]
  BY <1>1, <1>3 DEF FunctionsInv
<1>5. \A d \in Definitions : Cardinality(Calls(running', d)) = 0
  <2>1. \A d \in Definitions : Calls(running', d) = {}
    BY <1>1 DEF Calls
  <2> QED BY <2>1, FS_EmptySet
<1>6. Held(running', abandoned') = h
  <2>1. \A d \in Definitions :
          Cardinality(Calls(running', d)) + abandoned'[d]
            = Cardinality(Calls(running, d)) + abandoned[d]
    BY <1>1, <1>3, <1>4, <1>5
  <2> QED BY <2>1 DEF Held
<1>7. FunctionsOK(memory, h)
  BY DEF FunctionsInv
<1> HIDE DEF h
<1>8. FunctionsOK(memory', h)
  BY <1>1, <1>7, FreeListsCounts, UnsetAllCounts
<1> QED BY <1>2, <1>4, <1>6, <1>8 DEF FunctionsInv

LEMMA InvSteps ==
  ASSUME FunctionsInv, [Next]_vars
  PROVE  FunctionsInv'
<1>1. CASE UNCHANGED vars
  BY <1>1 DEF vars, FunctionsInv
<1>2. CASE AssignInPassing
  BY <1>2 DEF AssignInPassing, FunctionsInv
<1> QED BY <1>1, <1>2, ReadListSteps, EvalSteps, EndListSteps, DefineSteps,
           BeginCommandSteps, AssignSteps, CallSteps, EndFunctionSteps,
           CommandSteps, BuiltinSteps, EndCommandSteps, ScriptSteps DEF Next

(***************************************************************************)
(* The assignments that are pushed, and the commands that have made them.  *)
(***************************************************************************)
Pushing == {"function", "regular"}

MadeBy(r) ==
  {m \in (1..Len(r)) \X (1..MaxAssignments) :
     r[m[1]].kind \in Pushing /\ m[2] <= r[m[1]].made}

\* No command makes more assignments than it has, and lists make none.
Makes(f) == f.made <= MaxAssignments /\ (f.kind = "list" => f.started)
AllMade(r) == \A i \in 1..Len(r) : Makes(r[i])

\* The commands of r are executed in s as well, and have made as many there.
Remain(r, s) ==
  \A i \in 1..Len(r) :
    r[i].kind \in Pushing =>
      i \in 1..Len(s) /\ s[i].kind = r[i].kind /\ r[i].made <= s[i].made

PushedInv ==
  /\ store.pushed \in Seq(Assignment)
  /\ AllMade(running)
  /\ Len(store.pushed) <= Cardinality(MadeBy(running))

LEMMA MadeIsFinite ==
  ASSUME NEW r, RunningOK(r)
  PROVE  IsFiniteSet(MadeBy(r)) /\ Cardinality(MadeBy(r)) \in Nat
<1>1. IsFiniteSet(1..Len(r)) /\ IsFiniteSet(1..MaxAssignments)
  BY FS_Interval, DefinitionsAssumption DEF RunningOK
<1>2. IsFiniteSet((1..Len(r)) \X (1..MaxAssignments))
  BY <1>1, FS_Product
<1>3. MadeBy(r) \in SUBSET ((1..Len(r)) \X (1..MaxAssignments))
  BY DEF MadeBy
<1>4. IsFiniteSet(MadeBy(r))
  BY <1>2, <1>3, FS_Subset
<1> QED BY <1>4, FS_CardinalityType

LEMMA MadeRemain ==
  ASSUME NEW r, RunningOK(r), NEW s, RunningOK(s), Remain(r, s)
  PROVE  /\ MadeBy(r) \subseteq MadeBy(s)
         /\ Cardinality(MadeBy(r)) <= Cardinality(MadeBy(s))
<1>1. ASSUME NEW i \in 1..Len(r), NEW j \in 1..MaxAssignments,
             r[i].kind \in Pushing, j <= r[i].made
      PROVE  i \in 1..Len(s) /\ s[i].kind \in Pushing /\ j <= s[i].made
  <2>1. i \in 1..Len(s) /\ s[i].kind \in Pushing /\ r[i].made <= s[i].made
    BY <1>1 DEF Remain
  <2>2. r[i].made \in Nat /\ s[i].made \in Nat
    BY <2>1 DEF RunningOK, GoodFrames, Frames
  <2> QED BY <1>1, <2>1, <2>2, DefinitionsAssumption
<1>2. MadeBy(r) \subseteq MadeBy(s)
  BY <1>1 DEF MadeBy
<1> QED BY <1>2, MadeIsFinite, FS_Subset

\* A step that pushes nothing, and ends no command that has pushed.
LEMMA PushesNothing ==
  ASSUME FunctionsInv, FunctionsInv', PushedInv,
         store'.pushed = store.pushed,
         Remain(running, running'), AllMade(running')
  PROVE  PushedInv'
<1>1. Cardinality(MadeBy(running)) <= Cardinality(MadeBy(running'))
  BY MadeRemain DEF FunctionsInv
<1>2. /\ Cardinality(MadeBy(running)) \in Nat
      /\ Cardinality(MadeBy(running')) \in Nat
  BY MadeIsFinite DEF FunctionsInv
<1>3. Len(store.pushed) \in Nat
  BY DEF PushedInv
<1> QED BY <1>1, <1>2, <1>3 DEF PushedInv

\* A step that drops all that is pushed.
LEMMA DropsAll ==
  ASSUME FunctionsInv', store'.pushed = << >>, AllMade(running')
  PROVE  PushedInv'
<1>1. Cardinality(MadeBy(running')) \in Nat
  BY MadeIsFinite DEF FunctionsInv
<1> QED BY <1>1 DEF PushedInv

\* What is executed, after each way in which it changes.
LEMMA RemainsSame ==
  ASSUME NEW r, RunningOK(r)
  PROVE  Remain(r, r)
BY DEF Remain, RunningOK, GoodFrames, Frames

LEMMA RemainsEntered ==
  ASSUME NEW r, RunningOK(r), AllMade(r), NEW f, f.made = 0,
         f.kind = "list" => f.started
  PROVE  Remain(r, Append(r, f)) /\ AllMade(Append(r, f))
<1> DEFINE s == Append(r, f)
<1>1. /\ Len(s) = Len(r) + 1 /\ Len(r) \in Nat
      /\ \A i \in 1..Len(r) : s[i] = r[i]
      /\ s[Len(r) + 1] = f
  BY DEF RunningOK
<1>2. \A i \in 1..Len(r) : r[i].made \in Nat
  BY DEF RunningOK, GoodFrames, Frames
<1> HIDE DEF s
<1>3. \A i : i \in 1..Len(s) <=> i \in 1..Len(r) \/ i = Len(r) + 1
  BY <1>1
<1>4. Remain(r, s)
  BY <1>1, <1>2, <1>3 DEF Remain
<1>5. AllMade(s)
  BY <1>1, <1>3, DefinitionsAssumption DEF AllMade, Makes
<1> QED BY <1>4, <1>5 DEF s

LEMMA RemainsLeft ==
  ASSUME NEW r, RunningOK(r), AllMade(r), Len(r) > 0
  PROVE  /\ AllMade(OuterOf(r))
         /\ r[Len(r)].kind \notin Pushing => Remain(r, OuterOf(r))
<1>1. /\ Len(OuterOf(r)) = Len(r) - 1 /\ Len(r) \in Nat
      /\ \A i \in 1..Len(r) - 1 : OuterOf(r)[i] = r[i]
  BY OuterIs DEF RunningOK
<1>2. \A i \in 1..Len(r) : r[i].made \in Nat
  BY DEF RunningOK, GoodFrames, Frames
<1>3. \A i : i \in 1..Len(r) - 1 <=> i \in 1..Len(r) /\ i # Len(r)
  BY <1>1
<1> QED BY <1>1, <1>2, <1>3 DEF AllMade, Remain

LEMMA RemainsReplaced ==
  ASSUME NEW r, RunningOK(r), AllMade(r), Len(r) > 0, NEW f,
         f.kind = r[Len(r)].kind, f.made = r[Len(r)].made, f.started
  PROVE  /\ Remain(r, Append(OuterOf(r), f))
         /\ AllMade(Append(OuterOf(r), f))
<1> DEFINE s == Append(OuterOf(r), f)
<1>0. OuterOf(r) \in Seq(GoodFrames)
  BY OuterIs DEF RunningOK
<1>1. /\ Len(OuterOf(r)) = Len(r) - 1 /\ Len(r) \in Nat
      /\ \A i \in 1..Len(r) - 1 : OuterOf(r)[i] = r[i]
  BY OuterIs DEF RunningOK
<1>2. \A i \in 1..Len(r) : r[i].made \in Nat
  BY DEF RunningOK, GoodFrames, Frames
<1>3. /\ Len(s) = Len(r) /\ s[Len(r)] = f
      /\ \A i \in 1..Len(r) - 1 : s[i] = r[i]
  BY <1>0, <1>1
<1> HIDE DEF s
<1>4. \A i \in 1..Len(r) : s[i].kind = r[i].kind /\ s[i].made = r[i].made
  BY <1>1, <1>3
<1>5. Remain(r, s)
  BY <1>2, <1>3, <1>4 DEF Remain
<1>6. AllMade(s)
  BY <1>1, <1>3, <1>4 DEF AllMade, Makes
<1> QED BY <1>5, <1>6 DEF s

LEMMA RemainsThrough ==
  ASSUME NEW r, RunningOK(r), NEW s, RunningOK(s), NEW t, RunningOK(t),
         Remain(r, s), Remain(s, t)
  PROVE  Remain(r, t)
<1>1. /\ \A i \in 1..Len(r) : r[i].made \in Nat
      /\ \A i \in 1..Len(s) : s[i].made \in Nat
      /\ \A i \in 1..Len(t) : t[i].made \in Nat
  BY DEF RunningOK, GoodFrames, Frames
<1> QED BY <1>1, SMTT(30) DEF Remain

LEMMA RemainsNested ==
  ASSUME NEW r, RunningOK(r), AllMade(r), Len(r) > 0, Len(r) < MaxDepth,
         NoCall(r[Len(r)]), NEW f, NoCall(f),
         f.kind = r[Len(r)].kind, f.made = r[Len(r)].made, f.started,
         NEW g, NoCall(g), g.made = 0, g.kind = "list" => g.started
  PROVE  /\ Remain(r, OuterOf(r) \o << f, g >>)
         /\ AllMade(OuterOf(r) \o << f, g >>)
<1> DEFINE s == Append(OuterOf(r), f)
<1>1. /\ RunningOK(s) /\ Remain(r, s) /\ AllMade(s)
      /\ RunningOK(OuterOf(r) \o << f, g >>)
  BY Replaces, ReplacesAndEnters, RemainsReplaced
<1>2. OuterOf(r) \o << f, g >> = Append(s, g)
  BY OuterIs, TwoAppended DEF RunningOK, NoCall
<1> HIDE DEF s
<1>3. Remain(s, Append(s, g)) /\ AllMade(Append(s, g))
  BY <1>1, RemainsEntered
<1> QED BY <1>1, <1>2, <1>3, RemainsThrough

\* What the operators of Variables do to what is pushed.
LEMMA SetPushesNothing ==
  ASSUME NEW s, StoreOK(s), NEW n \in Names, NEW v \in Values \cup {Absent}
  PROVE  /\ SetVariable(s, n, v, TRUE).pushed = s.pushed
         /\ SetVariable(s, n, v, FALSE).pushed = s.pushed
         /\ UnsetVariable(s, n).pushed = s.pushed
BY DEF SetVariable, UnsetVariable, Export, Setenv, StoreOK, Stores

LEMMA ScriptDropsAll ==
  ASSUME NEW s \in Stores
  PROVE  InitializeVariables(s).pushed = << >>
<1> DEFINE fresh == [n \in Names |-> IF s.environ[n] = Absent THEN Absent ELSE Null]
           u == [s EXCEPT !.table = fresh]
           t == PopVariables(u)
           none == << >>
<1>1. u = [table |-> fresh, environ |-> s.environ, pushed |-> s.pushed]
  BY DEF Stores
<1>2. t = [u EXCEPT !.pushed = none]
  BY DEF PopVariables
<1>3. InitializeVariables(s) = SetVariable(t, IFS, DefaultIFS, FALSE)
  BY DEF InitializeVariables
<1> HIDE DEF t, u, fresh, none
<1>4. t = [table |-> fresh, environ |-> s.environ, pushed |-> none]
  BY <1>1, <1>2
<1>5. SetVariable(t, IFS, DefaultIFS, FALSE).pushed = none
  BY <1>4 DEF SetVariable, Export, Setenv
<1> QED BY <1>3, <1>5 DEF none

LEMMA FramesMakeNone ==
  ASSUME NEW kind, NEW function
  PROVE  /\ Frame(kind, function).made = 0
         /\ Frame(kind, function).kind = "list" => Frame(kind, function).started
<1> DEFINE started == kind = "list"
           done == FALSE
<1>1. Frame(kind, function) = [kind |-> kind, function |-> function, made |-> 0,
                               started |-> started, done |-> done]
  BY DEF Frame
<1>2. kind = "list" => started
  OBVIOUS
<1> HIDE DEF started, done
<1> QED BY <1>1, <1>2

\* The actions that change what is executed, and push nothing.
LEMMA RunningRemains ==
  ASSUME FunctionsInv, PushedInv,
         \/ ReadList \/ Eval \/ EndList \/ DefineFunction \/ BeginCommand
         \/ CallFunction \/ CommandBuiltin \/ ReadVariable
         \/ ExportVariable \/ Unset \/ AssignInPassing
  PROVE  Remain(running, running') /\ AllMade(running')
<1> DEFINE r == running
<1>1. RunningOK(r) /\ AllMade(r) /\ Depth = Len(r) /\ Top = r[Len(r)]
  BY DEF FunctionsInv, PushedInv, Depth, Top
<1>2. CASE DefineFunction \/ AssignInPassing
  BY <1>1, <1>2, RemainsSame DEF DefineFunction, AssignInPassing
<1>3. CASE ReadList \/ BeginCommand
  <2>1. PICK kind, function : running' = Append(r, Frame(kind, function))
    BY <1>3 DEF ReadList, BeginCommand, Enter
  <2> QED BY <1>1, <2>1, FramesMakeNone, RemainsEntered
<1>4. CASE EndList
  <2>1. Len(r) > 0 /\ r[Len(r)].kind \notin Pushing /\ running' = OuterOf(r)
    BY <1>1, <1>4 DEF EndList, Executes, Outer, OuterOf, Pushing
  <2> QED BY <1>1, <2>1, RemainsLeft
<1>5. CASE ReadVariable \/ ExportVariable \/ Unset
  <2>1. Len(r) > 0 /\ running' = Append(OuterOf(r), Finished)
    BY <1>1, <1>5 DEF ReadVariable, ExportVariable, Unset, Finish, Starts, Outer, OuterOf
  <2>2. r[Len(r)] \in Frames
    BY <1>1, <2>1, TopIsGood DEF GoodFrames
  <2>3. /\ Finished.kind = r[Len(r)].kind /\ Finished.made = r[Len(r)].made
        /\ Finished.started
    BY <1>1, <2>2 DEF Finished, Frames
  <2> QED BY <1>1, <2>1, <2>3, RemainsReplaced
<1>6. CASE Eval \/ CommandBuiltin
  <2>1. PICK kind \in {"list", "special", "regular", "utility"} :
          /\ Len(r) > 0 /\ Len(r) < MaxDepth /\ r[Len(r)].kind # "function"
          /\ running' = OuterOf(r) \o << Finished, Frame(kind, None) >>
    BY <1>1, <1>6 DEF Eval, CommandBuiltin, Starts, Outer, OuterOf
  <2>2. r[Len(r)] \in Frames /\ NoCall(r[Len(r)]) /\ NoCall(Finished)
    BY <1>1, <2>1, TopIsGood, FinishedIsNoCall DEF GoodFrames
  <2>3. /\ Finished.kind = r[Len(r)].kind /\ Finished.made = r[Len(r)].made
        /\ Finished.started
    BY <1>1, <2>2 DEF Finished, Frames
  <2>4. /\ NoCall(Frame(kind, None)) /\ Frame(kind, None).made = 0
        /\ Frame(kind, None).kind = "list" => Frame(kind, None).started
    BY FramesStart, FramesMakeNone
  <2> QED BY <1>1, <2>1, <2>2, <2>3, <2>4, RemainsNested
<1>7. CASE CallFunction
  <2> DEFINE f == [r[Len(r)] EXCEPT !.started = TRUE]
  <2>1. Len(r) > 0 /\ running' = Changed(r, f)
    BY <1>1, <1>7 DEF CallFunction, Starts, Changed
  <2>2. r[Len(r)] \in GoodFrames
    BY <1>1, <2>1, TopIsGood
  <2>3. /\ f \in GoodFrames /\ f.kind = r[Len(r)].kind
        /\ f.made = r[Len(r)].made /\ f.started
    BY <2>2 DEF GoodFrames, Frames
  <2>4. r[Len(r)].made \in Nat /\ Len(r) \in Nat
    BY <1>1, <2>2 DEF GoodFrames, Frames, RunningOK
  <2> HIDE DEF f
  <2>5. /\ Len(running') = Len(r)
        /\ \A i \in 1..Len(r) : /\ running'[i].kind = r[i].kind
                                /\ running'[i].made = r[i].made
    BY <1>1, <2>1, <2>3, Changes
  <2>6. \A i \in 1..Len(r) : r[i].made \in Nat
    BY <1>1 DEF RunningOK, GoodFrames, Frames
  <2> QED BY <1>1, <2>1, <2>3, <2>5, <2>6, Changes DEF Remain, AllMade, Makes
<1> QED BY <1>2, <1>3, <1>4, <1>5, <1>6, <1>7

LEMMA StorePushesNothing ==
  ASSUME StoreOK(store),
         \/ ReadList \/ Eval \/ EndList \/ DefineFunction \/ BeginCommand
         \/ CallFunction \/ CommandBuiltin \/ ReadVariable
         \/ ExportVariable \/ Unset \/ AssignInPassing
  PROVE  store'.pushed = store.pushed
<1>1. CASE store' = store
  BY <1>1
<1>2. CASE \E a \in Assignment : store' = SetVariable(store, a.name, a.value, FALSE)
  <2>1. PICK n \in Names, v \in Values : store' = SetVariable(store, n, v, FALSE)
    BY <1>2 DEF Assignment
  <2>2. SetVariable(store, n, v, FALSE).pushed = store.pushed
    BY SetPushesNothing
  <2> QED BY <2>1, <2>2
<1>3. CASE \E n \in Names, v \in Values \cup {Absent} :
             store' = SetVariable(store, n, v, TRUE)
  <2>1. PICK n \in Names, v \in Values \cup {Absent} :
          store' = SetVariable(store, n, v, TRUE)
    BY <1>3
  <2>2. SetVariable(store, n, v, TRUE).pushed = store.pushed
    BY SetPushesNothing
  <2> QED BY <2>1, <2>2
<1>4. CASE \E n \in Names : store' = UnsetVariable(store, n)
  BY <1>4, SetPushesNothing
<1> QED BY <1>1, <1>2, <1>3, <1>4
        DEF ReadList, Eval, EndList, DefineFunction, BeginCommand, CallFunction,
            CommandBuiltin, ReadVariable, ExportVariable, Unset, AssignInPassing

\* An assignment that is pushed belongs to the innermost command.
LEMMA AssignPushes ==
  ASSUME StoreOK(store), FunctionsInv, FunctionsInv', PushedInv, Assign
  PROVE  PushedInv'
<1> DEFINE r == running
           n == Len(r)
           f == [r[n] EXCEPT !.made = @ + 1]
<1>1. RunningOK(r) /\ AllMade(r) /\ Depth = n /\ Top = r[n] /\ n \in Nat
  BY DEF FunctionsInv, PushedInv, Depth, Top, RunningOK
<1>2. /\ n > 1 /\ r[n].made < MaxAssignments /\ ~r[n].started
      /\ running' = Changed(r, f)
  BY <1>1 DEF Assign, Changed
<1>11. r[n].kind # "list"
  BY <1>1, <1>2 DEF AllMade, Makes
<1>3. r[n] \in GoodFrames /\ r[n].made \in Nat
  BY <1>1, <1>2, TopIsGood DEF GoodFrames, Frames
<1>4. f \in GoodFrames /\ f.kind = r[n].kind /\ f.made = r[n].made + 1
  BY <1>3 DEF GoodFrames, Frames
<1> HIDE DEF f
<1>5. /\ Len(running') = n /\ running'[n] = f
      /\ \A i \in 1..n : i # n => running'[i] = r[i]
  BY <1>1, <1>2, <1>4, Changes
<1>6. \A i \in 1..n : r[i].made \in Nat
  BY <1>1 DEF RunningOK, GoodFrames, Frames
<1>7. Remain(r, running') /\ AllMade(running')
  <2>1. f.made <= MaxAssignments /\ r[n].made <= f.made /\ f.kind # "list"
    BY <1>2, <1>3, <1>4, <1>11, DefinitionsAssumption
  <2>2. Remain(r, running')
    BY <1>1, <1>4, <1>5, <1>6, <2>1 DEF Remain
  <2>3. AllMade(running')
    BY <1>1, <1>5, <2>1 DEF AllMade, Makes
  <2> QED BY <2>2, <2>3
<1>8. PICK a \in Assignment :
        store' = CASE r[n].kind = "special" ->
                        SetVariable(store, a.name, a.value, FALSE)
                   [] r[n].kind = "utility" -> store
                   [] OTHER -> PushVariable(store, a.name, a.value)
  BY <1>1 DEF Assign
<1>9. CASE r[n].kind \in {"special", "utility"}
  <2>1. ASSUME r[n].kind = "utility" PROVE store'.pushed = store.pushed
    BY <1>8, <2>1
  <2>2. ASSUME r[n].kind = "special" PROVE store'.pushed = store.pushed
    <3>1. PICK m \in Names, v \in Values : store' = SetVariable(store, m, v, FALSE)
      BY <1>8, <2>2 DEF Assignment
    <3>2. SetVariable(store, m, v, FALSE).pushed = store.pushed
      BY SetPushesNothing
    <3> QED BY <3>1, <3>2
  <2>3. store'.pushed = store.pushed
    BY <1>9, <2>1, <2>2
  <2> QED BY <1>7, <2>3, PushesNothing
<1>10. CASE r[n].kind \in Pushing
  <2> DEFINE new == << n, r[n].made + 1 >>
             entry == [name |-> a.name, value |-> a.value]
  <2>1. /\ store.pushed \in Seq(Assignment) /\ entry \in Assignment
        /\ store'.pushed = Append(store.pushed, entry)
    BY <1>8, <1>10 DEF Pushing, PushVariable, StoreOK, Stores, Assignment
  <2>2. /\ store'.pushed \in Seq(Assignment)
        /\ Len(store'.pushed) = Len(store.pushed) + 1 /\ Len(store.pushed) \in Nat
    BY <2>1
  <2>3. new \in MadeBy(running') /\ new \notin MadeBy(r)
    BY <1>1, <1>2, <1>3, <1>4, <1>5, <1>10, DefinitionsAssumption DEF MadeBy
  <2>4. RunningOK(running')
    BY DEF FunctionsInv
  <2>5. MadeBy(r) \cup {new} \subseteq MadeBy(running')
    BY <1>1, <1>7, <2>3, <2>4, MadeRemain
  <2>6. Cardinality(MadeBy(r) \cup {new}) = Cardinality(MadeBy(r)) + 1
    BY <1>1, <2>3, MadeIsFinite, FS_AddElement
  <2>7. Cardinality(MadeBy(r) \cup {new}) <= Cardinality(MadeBy(running'))
    BY <2>4, <2>5, MadeIsFinite, FS_Subset
  <2>8. Cardinality(MadeBy(r)) \in Nat /\ Cardinality(MadeBy(running')) \in Nat
    BY <1>1, <2>4, MadeIsFinite
  <2>9. Len(store.pushed) <= Cardinality(MadeBy(r))
    BY DEF PushedInv
  <2> HIDE DEF new
  <2>10. Len(store'.pushed) <= Cardinality(MadeBy(running'))
    BY <2>2, <2>6, <2>7, <2>8, <2>9
  <2> QED BY <1>7, <2>2, <2>10 DEF PushedInv
<1> QED BY <1>3, <1>9, <1>10, <1>11 DEF Pushing, GoodFrames, Frames, Kinds

LEMMA EndDrops ==
  ASSUME FunctionsInv, PushedInv, EndFunction \/ EndCommand
  PROVE  store'.pushed = << >> /\ AllMade(running')
<1>1. /\ RunningOK(running) /\ AllMade(running) /\ Len(running) > 0
      /\ running' = OuterOf(running) /\ store' = PopVariables(store)
  BY DEF FunctionsInv, PushedInv, EndFunction, EndCommand, Executes, Outer, OuterOf, Depth
<1>2. AllMade(running')
  BY <1>1, RemainsLeft
<1> QED BY <1>1, <1>2 DEF PopVariables

LEMMA ScriptDrops ==
  ASSUME StoreOK(store), ExecuteScript
  PROVE  store'.pushed = << >> /\ AllMade(running')
<1>1. PICK s \in {store} \cup {Setenv(store, a.name, a.value) : a \in Assignment} :
        store' = InitializeVariables(s)
  BY DEF ExecuteScript
<1>2. s \in Stores
  BY <1>1 DEF StoreOK, Stores, Setenv, Assignment
<1>3. running' = << >>
  BY DEF ExecuteScript
<1> QED BY <1>1, <1>2, <1>3, ScriptDropsAll DEF AllMade

LEMMA PushedSteps ==
  ASSUME StoreOK(store), FunctionsInv, FunctionsInv', PushedInv, [Next]_vars
  PROVE  PushedInv'
<1>1. CASE UNCHANGED vars
  BY <1>1 DEF vars, PushedInv
<1>2. CASE Assign
  BY <1>2, AssignPushes
<1>3. CASE EndFunction \/ EndCommand
  BY <1>3, EndDrops, DropsAll
<1>4. CASE ExecuteScript
  BY <1>4, ScriptDrops, DropsAll
<1>5. CASE \/ ReadList \/ Eval \/ EndList \/ DefineFunction \/ BeginCommand
           \/ CallFunction \/ CommandBuiltin \/ ReadVariable
           \/ ExportVariable \/ Unset \/ AssignInPassing
  BY <1>5, StorePushesNothing, RunningRemains, PushesNothing
<1> QED BY <1>1, <1>2, <1>3, <1>4, <1>5 DEF Next

LEMMA PushedStarts ==
  ASSUME Init
  PROVE  PushedInv
<1>1. PICK e \in [Names -> Values \cup {Absent}] :
        store = InitializeVariables([table |-> [n \in Names |-> Absent], environ |-> e,
                                     pushed |-> << >>])
  BY DEF Init, InitialStores
<1> DEFINE s == [table |-> [n \in Names |-> Absent], environ |-> e, pushed |-> << >>]
<1>2. s \in Stores
  BY DEF Stores
<1>3. store.pushed = << >>
  BY <1>1, <1>2, ScriptDropsAll
<1>4. running = << >> /\ FunctionsInv
  BY InvStarts DEF Init
<1>5. Cardinality(MadeBy(running)) \in Nat
  BY <1>4, MadeIsFinite DEF FunctionsInv
<1> QED BY <1>3, <1>4, <1>5 DEF PushedInv, AllMade

\* The variables, the definitions and the commands stay what they are.
THEOREM DefinitionsTypeCorrect == Spec => []TypeOK
<1>1. Init => StoreOK(store) /\ FunctionsInv
  BY StoresStart, InvStarts
<1>2. StoreOK(store) /\ FunctionsInv /\ [Next]_vars => StoreOK(store)' /\ FunctionsInv'
  BY StoreSteps, InvSteps DEF Steps
<1>3. StoreOK(store) /\ FunctionsInv => TypeOK
  BY InvGivesTypes DEF TypeOK, StoreOK
<1> QED BY <1>1, <1>2, <1>3, PTL DEF Spec

\* A definition has as many references as the table, the list or body it was
\* parsed with, and the calls of it make together, however functions define,
\* redefine and unset each other, so none that is still executed is freed
\* (addFunction, freeFunction, executeFunction).
THEOREM DefinitionsCountReferences == Spec => []ReferencesAreCounted
<1>1. Init => FunctionsInv
  BY InvStarts
<1>2. FunctionsInv /\ [Next]_vars => FunctionsInv'
  BY InvSteps
<1>3. FunctionsInv => ReferencesAreCounted
  BY InvCounts
<1> QED BY <1>1, <1>2, <1>3, PTL DEF Spec

\* What is pushed is never more than the functions and the builtins that are
\* executed have assigned: executeExpandedCommand drops it before they are gone,
\* however many levels popVariables drops with it.
THEOREM DefinitionsDropTemporaries == Spec => []TemporariesBelongToCommands
<1> DEFINE Inv == StoreOK(store) /\ FunctionsInv /\ PushedInv
<1>1. Init => Inv
  BY StoresStart, InvStarts, PushedStarts
<1>2. Inv /\ [Next]_vars => Inv'
  BY StoreSteps, InvSteps, PushedSteps DEF Steps
<1>3. Inv => TemporariesBelongToCommands
  BY DEF PushedInv, TemporariesBelongToCommands, Made, MadeBy, Depth, Pushing
<1> QED BY <1>1, <1>2, <1>3, PTL DEF Spec

=============================================================================
