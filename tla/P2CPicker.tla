------------------------------ MODULE P2CPicker ------------------------------
(***************************************************************************)
(* The balancer of the rpc client, balancer/zrpc/p2c/p2c.go. gRPC builds a *)
(* new picker with new subConn records whenever the set of ready           *)
(* connections changes; a goroutine that already holds an older picker     *)
(* still picks from it, and the Done of a call always works on the record  *)
(* it was picked from.                                                     *)
(*                                                                         *)
(* Pick holds the picker's lock. The moving averages behind load and       *)
(* healthy are left open: either of two candidates may be the heavier, and *)
(* with more than two connections any two may be the candidates. The clock *)
(* is kept as ages: age is the time since pick, up to ForcePick + 1, which *)
(* stands for all later times and for a record that was never picked.      *)
(***************************************************************************)
EXTENDS Integers, FiniteSets

CONSTANTS
  Call,       \* calls, each made once
  Conn,       \* connections
  ForcePick,  \* forcePick
  MaxBuilds   \* bound: pickers that are built

ASSUME P2CAssumption ==
  /\ IsFiniteSet(Call) /\ IsFiniteSet(Conn)
  /\ ForcePick \in Nat
  /\ MaxBuilds \in Nat \ {0}

Picker == 1 .. MaxBuilds
None   == "none"

Due == ForcePick + 1   \* the age from which start - pick > forcePick

VARIABLES
  picker,    \* the picker gRPC hands out
  conns,     \* per picker: its connections
  age,       \* per picker and connection: the time since it was picked
  inflight,  \* per picker and connection: calls that are being processed
  stage,     \* per call: "idle", "holding" a picker, "sent" or "done"
  from,      \* per call: the picker it holds or was picked from
  on,        \* per call: the connection it was sent on
  passed     \* history, per picker and connection: the Picks in a row that
             \* passed it over although it was due, at most 2

records == <<age, inflight>>
calls   == <<stage, from, on>>
vars    == <<picker, conns, records, calls, passed>>

Init ==
  /\ picker = 1
  /\ conns = [p \in Picker |-> {}]
  /\ age = [p \in Picker |-> [n \in Conn |-> Due]]
  /\ inflight = [p \in Picker |-> [n \in Conn |-> 0]]
  /\ stage = [c \in Call |-> "idle"]
  /\ from = [c \in Call |-> 1]
  /\ on = [c \in Call |-> None]
  /\ passed = [p \in Picker |-> [n \in Conn |-> 0]]

\* The set of ready connections changes: fresh records for all of them.
Build ==
  /\ picker < MaxBuilds
  /\ picker' = picker + 1
  /\ \E ready \in SUBSET Conn : conns' = [conns EXCEPT ![picker + 1] = ready]
  /\ UNCHANGED <<records, calls, passed>>

-----------------------------------------------------------------------------
(* Pick.                                                                   *)

\* gRPC loads the picker, then calls it. With no connections it waits for
\* another picker.
Load(c) ==
  /\ stage[c] = "idle"
  /\ conns[picker] # {}
  /\ stage' = [stage EXCEPT ![c] = "holding"]
  /\ from' = [from EXCEPT ![c] = picker]
  /\ UNCHANGED <<picker, conns, records, on, passed>>

\* The two connections Pick compares, the lighter first. A single connection is
\* compared with none.
Candidates(p) ==
  IF Cardinality(conns[p]) = 1 THEN {<<n, n>> : n \in conns[p]}
  ELSE {pair \in conns[p] \X conns[p] : pair[1] # pair[2]}

\* Variant for a mutation run: the lighter one's last pick decides.
ChooseByLighter(p, c1, c2) == IF age[p][c1] = Due THEN c2 ELSE c1

\* choose: the heavier one, if it was not picked for longer than ForcePick.
Choose(p, c1, c2) == IF age[p][c2] = Due THEN c2 ELSE c1

\* The history after a Pick that compared chosen with other.
PassedOver(p, chosen, other) ==
  [n \in Conn |->
    IF n = chosen THEN 0
    ELSE IF n = other /\ age[p][n] = Due /\ passed[p][n] < 2 THEN passed[p][n] + 1
    ELSE passed[p][n]]

Pick(c) ==
  LET p == from[c]
  IN /\ stage[c] = "holding"
     /\ \E pair \in Candidates(p) :
          LET chosen == Choose(p, pair[1], pair[2])
              other  == IF chosen = pair[1] THEN pair[2] ELSE pair[1]
          IN /\ on' = [on EXCEPT ![c] = chosen]
             /\ age' = [age EXCEPT ![p][chosen] = 0]
             /\ inflight' = [inflight EXCEPT ![p][chosen] = @ + 1]
             /\ passed' = [passed EXCEPT ![p] = PassedOver(p, chosen, other)]
     /\ stage' = [stage EXCEPT ![c] = "sent"]
     /\ UNCHANGED <<picker, conns, from>>

-----------------------------------------------------------------------------

\* Variant for a mutation run: Done finds its record in the current picker.
DoneCurrent(c) ==
  /\ stage[c] = "sent"
  /\ stage' = [stage EXCEPT ![c] = "done"]
  /\ inflight' = [inflight EXCEPT ![picker][on[c]] = @ - 1]
  /\ UNCHANGED <<picker, conns, age, from, on, passed>>

\* The function that buildDoneFunc made for the call.
Done(c) ==
  /\ stage[c] = "sent"
  /\ stage' = [stage EXCEPT ![c] = "done"]
  /\ inflight' = [inflight EXCEPT ![from[c]][on[c]] = @ - 1]
  /\ UNCHANGED <<picker, conns, age, from, on, passed>>

Tick ==
  /\ age' = [p \in Picker |-> [n \in Conn |->
               IF age[p][n] < Due THEN age[p][n] + 1 ELSE Due]]
  /\ UNCHANGED <<picker, conns, inflight, calls, passed>>

Next ==
  \/ Build
  \/ Tick
  \/ \E c \in Call : Load(c) \/ Pick(c) \/ Done(c)

Spec == Init /\ [][Next]_vars

-----------------------------------------------------------------------------
(* Properties.                                                             *)

\* Type invariant of the picker.
TypeOK ==
  /\ picker \in Picker
  /\ conns \in [Picker -> SUBSET Conn]
  /\ age \in [Picker -> [Conn -> 0 .. Due]]
  /\ inflight \in [Picker -> [Conn -> Nat]]
  /\ stage \in [Call -> {"idle", "holding", "sent", "done"}]
  /\ from \in [Call -> Picker]
  /\ on \in [Call -> Conn \cup {None}]
  /\ passed \in [Picker -> [Conn -> 0 .. 2]]

\* Each record counts exactly the calls that were sent by it and have not
\* ended, whenever pickers are replaced and whatever picker a call held.
InflightExact ==
  \A p \in Picker, n \in Conn :
    inflight[p][n] =
      Cardinality({c \in Call : stage[c] = "sent" /\ from[c] = p /\ on[c] = n})

\* A forced pick is lost to no fresh connection (p2c.go:184): a Pick that passes
\* over a connection that was not picked for ForcePick sends the call on another
\* that was not either. It says nothing of how often that may happen.
DueIsChosen ==
  [][\A p \in Picker, n, m \in Conn :
       passed'[p][n] > passed[p][n] /\ inflight'[p][m] > inflight[p][m] =>
         age[p][m] = Due]_vars

\* What the comments promise (p2c.go:27 and 182): a connection is picked by force
\* once ForcePick has passed. With two connections at most one Pick can come in
\* between, the one that picks the other by force.
ForcedInTime ==
  \A p \in Picker, n \in Conn : Cardinality(conns[p]) = 2 => passed[p][n] < 2
=============================================================================
