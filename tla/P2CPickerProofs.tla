--------------------------- MODULE P2CPickerProofs ---------------------------
(***************************************************************************)
(* Proofs about P2CPicker for any number of calls, connections and pickers *)
(* and any ForcePick: the accounts of calls in flight and the forced pick. *)
(***************************************************************************)
EXTENDS P2CPicker, FiniteSetTheorems, TLAPS

\* The calls that a record has to count.
Sent(p, n) == {c \in Call : stage[c] = "sent" /\ from[c] = p /\ on[c] = n}

InflightInv ==
  \A p \in Picker, n \in Conn : inflight[p][n] = Cardinality(Sent(p, n))

\* A call that was sent is on a connection.
OnInv == \A c \in Call : stage[c] = "sent" => on[c] \in Conn

IInv == TypeOK /\ OnInv /\ InflightInv

-----------------------------------------------------------------------------

LEMMA Finite ==
  \A p, n : IsFiniteSet(Sent(p, n)) /\ Cardinality(Sent(p, n)) \in Nat
  BY P2CAssumption, FS_Subset, FS_CardinalityType DEF Sent

LEMMA InitIInv == Init => IInv
<1> SUFFICES ASSUME Init PROVE IInv
  OBVIOUS
<1>1. TypeOK /\ OnInv
  BY P2CAssumption DEF Init, TypeOK, OnInv, Picker, Due
<1>2. InflightInv
  <2>1. \A p, n : Sent(p, n) = {}
    BY DEF Init, Sent
  <2>2. QED BY <2>1, FS_EmptySet DEF Init, InflightInv
<1>3. QED BY <1>1, <1>2 DEF IInv

-----------------------------------------------------------------------------
(* Pick and Done.                                                          *)

\* A Pick that sends c on the connection chosen after comparing it with other.
Picks(c, chosen, other) ==
  /\ age[from[c]][other] = Due => age[from[c]][chosen] = Due
  /\ stage[c] = "holding"
  /\ stage' = [stage EXCEPT ![c] = "sent"]
  /\ on' = [on EXCEPT ![c] = chosen]
  /\ age' = [age EXCEPT ![from[c]][chosen] = 0]
  /\ inflight' = [inflight EXCEPT ![from[c]][chosen] = @ + 1]
  /\ passed' = [passed EXCEPT ![from[c]] = PassedOver(from[c], chosen, other)]
  /\ UNCHANGED <<picker, conns, from>>

\* Every Pick is one of these, whichever pair it compared.
LEMMA PickStep ==
  ASSUME TypeOK, NEW c \in Call, Pick(c)
  PROVE  \E chosen \in Conn, other \in Conn : Picks(c, chosen, other)
<1>1. PICK pair \in Candidates(from[c]) :
        LET p      == from[c]
            chosen == Choose(p, pair[1], pair[2])
            other  == IF chosen = pair[1] THEN pair[2] ELSE pair[1]
        IN /\ on' = [on EXCEPT ![c] = chosen]
           /\ age' = [age EXCEPT ![p][chosen] = 0]
           /\ inflight' = [inflight EXCEPT ![p][chosen] = @ + 1]
           /\ passed' = [passed EXCEPT ![p] = PassedOver(p, chosen, other)]
  BY DEF Pick
<1>2. pair[1] \in Conn /\ pair[2] \in Conn
  BY DEF Candidates, TypeOK
<1> DEFINE chosen == Choose(from[c], pair[1], pair[2])
           other  == IF chosen = pair[1] THEN pair[2] ELSE pair[1]
<1>3. chosen \in Conn /\ other \in Conn
  BY <1>2 DEF Choose
<1>4. age[from[c]][other] = Due => age[from[c]][chosen] = Due
  BY DEF Choose
<1>5. /\ stage[c] = "holding"
      /\ stage' = [stage EXCEPT ![c] = "sent"]
      /\ UNCHANGED <<picker, conns, from>>
  BY DEF Pick
<1>6. Picks(c, chosen, other)
  BY <1>1, <1>4, <1>5 DEF Picks
<1>7. QED BY <1>3, <1>6

LEMMA TypeStep ==
  ASSUME IInv, InflightInv', [Next]_vars
  PROVE  TypeOK' /\ OnInv'
<1> USE P2CAssumption
<1>1. ASSUME Build
      PROVE  TypeOK' /\ OnInv'
  BY <1>1 DEF Build, TypeOK, OnInv, IInv, Picker, records, calls
<1>2. ASSUME Tick
      PROVE  TypeOK' /\ OnInv'
  BY <1>2 DEF Tick, TypeOK, OnInv, IInv, Due, calls
<1>3. ASSUME NEW c \in Call, Load(c)
      PROVE  TypeOK' /\ OnInv'
  BY <1>3 DEF Load, TypeOK, OnInv, IInv, records
<1>4. ASSUME NEW c \in Call, Pick(c)
      PROVE  TypeOK' /\ OnInv'
  <2>1. PICK chosen \in Conn, other \in Conn : Picks(c, chosen, other)
    BY <1>4, PickStep DEF IInv
  <2>2. from[c] \in Picker
    BY DEF IInv, TypeOK
  <2>3. PassedOver(from[c], chosen, other) \in [Conn -> 0 .. 2]
    BY <2>2 DEF PassedOver, IInv, TypeOK
  <2>4. passed' \in [Picker -> [Conn -> 0 .. 2]]
    BY <2>1, <2>3 DEF Picks, IInv, TypeOK
  <2>5. age' \in [Picker -> [Conn -> 0 .. Due]]
    BY <2>1, <2>2 DEF Picks, IInv, TypeOK, Due
  <2>6. inflight' \in [Picker -> [Conn -> Nat]]
    BY <2>1, <2>2 DEF Picks, IInv, TypeOK
  <2>7. QED BY <2>1, <2>4, <2>5, <2>6 DEF Picks, IInv, TypeOK, OnInv
<1>5. ASSUME NEW c \in Call, Done(c)
      PROVE  TypeOK' /\ OnInv'
  <2>1. inflight' \in [Picker -> [Conn -> Int]]
    BY <1>5 DEF Done, IInv, TypeOK, OnInv
  <2>2. \A p \in Picker, n \in Conn : inflight'[p][n] \in Nat
    <3>1. \A p, n : IsFiniteSet(Sent(p, n)')
      BY FS_Subset DEF Sent
    <3>2. QED BY <3>1, FS_CardinalityType DEF InflightInv
  <2>3. inflight' \in [Picker -> [Conn -> Nat]]
    BY <2>1, <2>2
  <2>4. QED BY <1>5, <2>3 DEF Done, IInv, TypeOK, OnInv
<1>6. CASE UNCHANGED vars
  BY <1>6 DEF IInv, TypeOK, OnInv, vars, records, calls
<1>7. QED
  BY <1>1, <1>2, <1>3, <1>4, <1>5, <1>6 DEF Next

LEMMA InflightStep ==
  ASSUME IInv, [Next]_vars
  PROVE  InflightInv'
<1> USE P2CAssumption, Finite
<1>1. ASSUME Build \/ Tick \/ UNCHANGED vars
      PROVE  InflightInv'
  <2>1. UNCHANGED <<inflight, stage, from, on>>
    BY <1>1 DEF Build, Tick, vars, records, calls
  <2>2. \A p, n : Sent(p, n)' = Sent(p, n)
    BY <2>1 DEF Sent
  <2>3. QED BY <2>1, <2>2 DEF IInv, InflightInv
<1>2. ASSUME NEW c \in Call, Load(c)
      PROVE  InflightInv'
  <2>1. inflight' = inflight
    BY <1>2 DEF Load, records
  <2>2. \A p, n : Sent(p, n)' = Sent(p, n)
    BY <1>2 DEF Load, Sent, IInv, TypeOK
  <2>3. QED BY <2>1, <2>2 DEF IInv, InflightInv
<1>3. ASSUME NEW c \in Call, Pick(c)
      PROVE  InflightInv'
  <2>1. PICK chosen \in Conn, other \in Conn : Picks(c, chosen, other)
    BY <1>3, PickStep DEF IInv
  <2>2. /\ stage' = [stage EXCEPT ![c] = "sent"] /\ stage[c] = "holding"
        /\ on' = [on EXCEPT ![c] = chosen] /\ from' = from
        /\ inflight' = [inflight EXCEPT ![from[c]][chosen] = @ + 1]
    BY <2>1 DEF Picks
  <2>3. \A p \in Picker, n \in Conn :
          IF p = from[c] /\ n = chosen THEN inflight'[p][n] = inflight[p][n] + 1
                                       ELSE inflight'[p][n] = inflight[p][n]
    BY <2>2 DEF IInv, TypeOK
  <2>4. \A p, n : p = from[c] /\ n = chosen =>
          c \notin Sent(p, n) /\ Sent(p, n)' = Sent(p, n) \cup {c}
    BY <2>2 DEF Sent, IInv, TypeOK
  <2>5. \A p, n : ~(p = from[c] /\ n = chosen) => Sent(p, n)' = Sent(p, n)
    BY <2>2 DEF Sent, IInv, TypeOK
  <2>6. \A p, n : p = from[c] /\ n = chosen =>
          Cardinality(Sent(p, n) \cup {c}) = Cardinality(Sent(p, n)) + 1
    BY <2>4, FS_AddElement
  <2>7. ASSUME NEW p \in Picker, NEW n \in Conn
        PROVE  inflight'[p][n] = Cardinality(Sent(p, n)')
    <3>1. inflight[p][n] = Cardinality(Sent(p, n))
      BY DEF IInv, InflightInv
    <3>2. CASE p = from[c] /\ n = chosen
      BY <2>3, <2>4, <2>5, <2>6, <3>1, <3>2
    <3>3. CASE ~(p = from[c] /\ n = chosen)
      <4>1. Sent(p, n)' = Sent(p, n) /\ inflight'[p][n] = inflight[p][n]
        BY <2>3, <2>4, <2>5, <2>6, <3>3
      <4>2. QED BY <3>1, <4>1
    <3>4. QED BY <3>2, <3>3
  <2>8. QED BY <2>7 DEF InflightInv
<1>4. ASSUME NEW c \in Call, Done(c)
      PROVE  InflightInv'
  <2>1. /\ stage[c] = "sent" /\ on[c] \in Conn /\ from[c] \in Picker
        /\ stage' = [stage EXCEPT ![c] = "done"]
        /\ inflight' = [inflight EXCEPT ![from[c]][on[c]] = @ - 1]
        /\ from' = from /\ on' = on
    BY <1>4 DEF Done, IInv, OnInv, TypeOK
  <2>2. \A p \in Picker, n \in Conn :
          IF p = from[c] /\ n = on[c] THEN inflight'[p][n] = inflight[p][n] - 1
                                      ELSE inflight'[p][n] = inflight[p][n]
    BY <2>1 DEF IInv, TypeOK
  <2>3. \A p, n : p = from[c] /\ n = on[c] =>
          c \in Sent(p, n) /\ Sent(p, n)' = Sent(p, n) \ {c}
    BY <2>1 DEF Sent, IInv, TypeOK
  <2>4. \A p, n : ~(p = from[c] /\ n = on[c]) => Sent(p, n)' = Sent(p, n)
    BY <2>1 DEF Sent, IInv, TypeOK
  <2>5. \A p, n : p = from[c] /\ n = on[c] =>
          Cardinality(Sent(p, n) \ {c}) = Cardinality(Sent(p, n)) - 1
    BY <2>3, FS_RemoveElement
  <2>6. ASSUME NEW p \in Picker, NEW n \in Conn
        PROVE  inflight'[p][n] = Cardinality(Sent(p, n)')
    <3>1. inflight[p][n] = Cardinality(Sent(p, n))
      BY DEF IInv, InflightInv
    <3>2. CASE p = from[c] /\ n = on[c]
      BY <2>2, <2>3, <2>4, <2>5, <3>1, <3>2
    <3>3. CASE ~(p = from[c] /\ n = on[c])
      <4>1. Sent(p, n)' = Sent(p, n) /\ inflight'[p][n] = inflight[p][n]
        BY <2>2, <2>3, <2>4, <2>5, <3>3
      <4>2. QED BY <3>1, <4>1
    <3>4. QED BY <3>2, <3>3
  <2>7. QED BY <2>6 DEF InflightInv
<1>5. QED
  BY <1>1, <1>2, <1>3, <1>4 DEF Next

LEMMA InvStep == IInv /\ [Next]_vars => IInv'
  BY InflightStep, TypeStep DEF IInv

LEMMA Invariant == Spec => []IInv
  BY InitIInv, InvStep, PTL DEF Spec

-----------------------------------------------------------------------------

\* Every reachable state of the pickers has its type; no count of calls in
\* flight ever falls below zero.
THEOREM TypeCorrect == Spec => []TypeOK
<1>1. IInv => TypeOK
  BY DEF IInv
<1>2. QED BY <1>1, Invariant, PTL

\* For any number of calls, connections and pickers, each record counts exactly
\* the calls that were picked from it and still run.
THEOREM Exact == Spec => []InflightExact
<1>1. IInv => InflightExact
  BY DEF IInv, InflightInv, InflightExact, Sent
<1>2. QED BY <1>1, Invariant, PTL

\* One step of the forced pick.
DueStep ==
  \A p \in Picker, n, m \in Conn :
    passed'[p][n] > passed[p][n] /\ inflight'[p][m] > inflight[p][m] =>
      age[p][m] = Due

LEMMA DueHolds ==
  ASSUME TypeOK, [Next]_vars
  PROVE  DueStep
<1> SUFFICES ASSUME NEW p \in Picker, NEW n \in Conn, NEW m \in Conn,
                    passed'[p][n] > passed[p][n], inflight'[p][m] > inflight[p][m]
             PROVE  age[p][m] = Due
  BY DEF DueStep
<1>1. PICK c \in Call : Pick(c)
  <2>1. passed[p][n] \in 0 .. 2
    BY DEF TypeOK
  <2>2. passed' # passed
    BY <2>1, SMT
  <2>3. ~ UNCHANGED vars /\ ~Build /\ ~Tick
    BY <2>2 DEF vars, Build, Tick
  <2>4. \A c \in Call : ~Load(c) /\ ~Done(c)
    BY <2>2 DEF Load, Done
  <2>5. QED BY <2>3, <2>4 DEF Next
<1>2. PICK chosen \in Conn, other \in Conn : Picks(c, chosen, other)
  BY <1>1, PickStep
<1>3. p = from[c] /\ m = chosen
  BY <1>2 DEF Picks, TypeOK
<1>4. passed'[p] = PassedOver(p, chosen, other)
  BY <1>2, <1>3 DEF Picks, TypeOK
<1>5. passed[p][n] \in 0 .. 2
  BY DEF TypeOK
<1>6. n = other /\ age[p][n] = Due
  BY <1>4, <1>5 DEF PassedOver
<1>7. QED BY <1>2, <1>3, <1>6 DEF Picks

\* For any number of connections, a connection that is due is passed over only
\* by a Pick that chooses one that is due as well.
THEOREM Forced == Spec => DueIsChosen
<1>1. TypeOK /\ [Next]_vars => [DueStep]_vars
  BY DueHolds
<1>2. QED BY <1>1, TypeCorrect, PTL DEF Spec, DueIsChosen, DueStep

\* Calls come at least every ForcePick: a Pick finds a connection that is not due,
\* unless none of the picker's has been passed over yet.
Frequent ==
  \A c \in Call : Pick(c) =>
    \/ \E n \in conns[from[c]] : age[from[c]][n] # Due
    \/ \A n \in conns[from[c]] : passed[from[c]][n] = 0

\* A connection that was passed over is one of the picker's and is due; with two
\* connections it was passed over once.
PassedInv ==
  /\ \A c \in Call : from[c] <= picker
  /\ \A p \in Picker, n \in Conn :
       passed[p][n] # 0 => p <= picker /\ n \in conns[p] /\ age[p][n] = Due
  /\ ForcedInTime

\* Both candidates are connections of the picker.
LEMMA PickOfPicker ==
  ASSUME TypeOK, NEW c \in Call, Pick(c)
  PROVE  \E chosen \in conns[from[c]], other \in conns[from[c]] :
           Picks(c, chosen, other)
<1>1. PICK pair \in Candidates(from[c]) :
        LET p      == from[c]
            chosen == Choose(p, pair[1], pair[2])
            other  == IF chosen = pair[1] THEN pair[2] ELSE pair[1]
        IN /\ on' = [on EXCEPT ![c] = chosen]
           /\ age' = [age EXCEPT ![p][chosen] = 0]
           /\ inflight' = [inflight EXCEPT ![p][chosen] = @ + 1]
           /\ passed' = [passed EXCEPT ![p] = PassedOver(p, chosen, other)]
  BY DEF Pick
<1> DEFINE chosen == Choose(from[c], pair[1], pair[2])
           other  == IF chosen = pair[1] THEN pair[2] ELSE pair[1]
<1>2. chosen \in conns[from[c]] /\ other \in conns[from[c]]
  BY DEF Candidates, Choose
<1>3. /\ age[from[c]][other] = Due => age[from[c]][chosen] = Due
      /\ stage[c] = "holding"
      /\ stage' = [stage EXCEPT ![c] = "sent"]
      /\ UNCHANGED <<picker, conns, from>>
  BY DEF Choose, Pick
<1>4. Picks(c, chosen, other)
  BY <1>1, <1>3 DEF Picks
<1>5. QED BY <1>2, <1>4

\* Two different members make up a set of two.
LEMMA TwoMembers ==
  ASSUME NEW S \in SUBSET Conn, Cardinality(S) = 2,
         NEW a \in S, NEW b \in S, a # b, NEW x \in S
  PROVE  x = a \/ x = b
<1>1. IsFiniteSet(S)
  BY P2CAssumption, FS_Subset
<1>2. Cardinality(S \ {a}) = 1 /\ IsFiniteSet(S \ {a})
  BY <1>1, FS_RemoveElement
<1>3. Cardinality((S \ {a}) \ {b}) = 0 /\ IsFiniteSet((S \ {a}) \ {b})
  BY <1>2, FS_RemoveElement
<1>4. (S \ {a}) \ {b} = {}
  BY <1>3, FS_EmptySet
<1>5. QED BY <1>4

LEMMA PassedStep ==
  ASSUME TypeOK, PassedInv, [Next]_vars, [Frequent]_vars
  PROVE  PassedInv'
<1>0. /\ picker \in Nat /\ \A p \in Picker : p \in Nat
      /\ \A c \in Call : from[c] \in Picker
      /\ \A p \in Picker, n \in Conn : passed[p][n] \in 0 .. 2 /\ age[p][n] \in 0 .. Due
  <2>1. picker \in Nat /\ \A p \in Picker : p \in Nat
    BY P2CAssumption DEF TypeOK, Picker
  <2>2. QED BY <2>1 DEF TypeOK
<1>1. CASE Build
  <2>1. /\ picker' = picker + 1 /\ from' = from /\ passed' = passed /\ age' = age
        /\ \A p \in Picker : p <= picker => conns'[p] = conns[p]
    BY <1>0, <1>1 DEF Build, records, calls, TypeOK
  <2>2. ASSUME NEW p \in Picker, NEW n \in Conn, Cardinality(conns'[p]) = 2
        PROVE  passed'[p][n] < 2
    <3>1. CASE p <= picker
      BY <2>1, <2>2, <3>1 DEF PassedInv, ForcedInTime
    <3>2. CASE ~(p <= picker)
      <4>1. passed[p][n] = 0
        BY <3>2 DEF PassedInv
      <4>2. QED BY <2>1, <4>1
    <3>3. QED BY <3>1, <3>2
  <2>3. QED BY <1>0, <2>1, <2>2 DEF PassedInv, ForcedInTime
<1>2. CASE Tick
  <2>1. /\ UNCHANGED <<picker, conns, from, passed>>
        /\ \A p \in Picker, n \in Conn : age[p][n] = Due => age'[p][n] = Due
    BY <1>0, <1>2 DEF Tick, calls, TypeOK
  <2>2. QED BY <2>1 DEF PassedInv, ForcedInTime
<1>3. ASSUME NEW c \in Call, Load(c) \/ Done(c)
      PROVE  PassedInv'
  <2>1. /\ UNCHANGED <<picker, conns, age, passed>>
        /\ \A d \in Call : from'[d] = from[d] \/ from'[d] = picker
    BY <1>3 DEF Load, Done, records, TypeOK
  <2>2. QED BY <1>0, <2>1 DEF PassedInv, ForcedInTime
<1>4. ASSUME NEW c \in Call, Pick(c)
      PROVE  PassedInv'
  <2> DEFINE q == from[c]
  <2>1. PICK chosen \in conns[q], other \in conns[q] : Picks(c, chosen, other)
    BY <1>4, PickOfPicker
  <2>2. /\ q \in Picker /\ q <= picker /\ conns[q] \in SUBSET Conn
        /\ chosen \in Conn /\ other \in Conn
    BY <1>0, <2>1 DEF PassedInv, TypeOK
  <2>3. /\ UNCHANGED <<picker, conns, from>>
        /\ stage' # stage
        /\ \A p \in Picker : p # q => passed'[p] = passed[p] /\ age'[p] = age[p]
        /\ passed'[q] = PassedOver(q, chosen, other)
        /\ \A n \in Conn : age'[q][n] = IF n = chosen THEN 0 ELSE age[q][n]
    BY <2>1, <2>2 DEF Picks, TypeOK
  <2>4. /\ passed'[q][chosen] = 0
        /\ \A n \in Conn : n # chosen =>
             \/ passed'[q][n] = passed[q][n]
             \/ n = other /\ age[q][n] = Due /\ passed'[q][n] = passed[q][n] + 1
    BY <2>2, <2>3 DEF PassedOver
  <2>5. ASSUME NEW n \in Conn, passed'[q][n] # 0
        PROVE  n \in conns'[q] /\ age'[q][n] = Due
    <3>1. n # chosen /\ (passed[q][n] # 0 \/ (n = other /\ age[q][n] = Due))
      BY <2>4, <2>5
    <3>2. n \in conns[q] /\ age[q][n] = Due
      BY <2>1, <2>2, <3>1 DEF PassedInv
    <3>3. QED BY <2>3, <3>1, <3>2
  <2>6. ASSUME NEW n \in Conn, Cardinality(conns[q]) = 2
        PROVE  passed'[q][n] < 2
    <3>1. SUFFICES ASSUME ~ (passed'[q][n] < 2) PROVE FALSE
      OBVIOUS
    <3>2. passed[q][n] < 2 /\ passed[q][n] \in 0 .. 2
      BY <1>0, <2>2, <2>6 DEF PassedInv, ForcedInTime
    <3>3. n # chosen /\ n = other /\ age[q][n] = Due /\ passed[q][n] # 0
      BY <2>4, <3>1, <3>2
    <3>4. age[q][chosen] = Due
      BY <2>1, <3>3 DEF Picks
    <3>5. \A x \in conns[q] : x = chosen \/ x = other
      BY <2>1, <2>2, <2>6, <3>3, TwoMembers
    <3>6. Frequent
      BY <2>3 DEF vars, calls
    <3>7. \/ \E x \in conns[q] : age[q][x] # Due
          \/ \A x \in conns[q] : passed[q][x] = 0
      BY <1>4, <3>6 DEF Frequent
    <3>8. QED BY <2>1, <3>3, <3>4, <3>5, <3>7
  <2> HIDE DEF q
  <2>7. ForcedInTime'
    <3>1. SUFFICES ASSUME NEW p \in Picker, NEW n \in Conn, Cardinality(conns'[p]) = 2
                   PROVE  passed'[p][n] < 2
      BY DEF ForcedInTime
    <3>2. CASE p = q
      BY <2>3, <2>6, <3>1, <3>2
    <3>3. CASE p # q
      BY <2>3, <3>1, <3>3 DEF PassedInv, ForcedInTime
    <3>4. QED BY <3>2, <3>3
  <2>8. QED BY <2>2, <2>3, <2>5, <2>7 DEF PassedInv
<1>5. CASE UNCHANGED vars
  BY <1>5 DEF vars, records, calls, PassedInv, ForcedInTime
<1>6. QED BY <1>1, <1>2, <1>3, <1>4, <1>5 DEF Next

\* The comments of p2c.go (lines 27 and 182) are right as long as calls come often
\* enough: of two connections none is passed over twice once it is due.
THEOREM ForcedUnlessRare == Spec /\ [][Frequent]_vars => []ForcedInTime
<1>1. Init => PassedInv
  BY P2CAssumption DEF Init, PassedInv, ForcedInTime, Picker
<1>2. PassedInv => ForcedInTime
  BY DEF PassedInv
<1>3. QED BY <1>1, <1>2, PassedStep, TypeCorrect, PTL DEF Spec
=============================================================================
