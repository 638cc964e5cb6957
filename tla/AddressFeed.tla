----------------------------- MODULE AddressFeed -----------------------------
(***************************************************************************)
(* What a client connection is promised by a resolver. A service has had a *)
(* sequence of address lists; the connection is shown sets of addresses,   *)
(* never more than Limit, that come from lists of a certain age on, and    *)
(* that age never falls: an address that was dropped with its list does    *)
(* not come back unless the service lists it again.                        *)
(***************************************************************************)
EXTENDS Naturals, Sequences, FiniteSets

CONSTANTS Address, Limit

VARIABLES
  lists,  \* the address lists the service has had, the newest last
  floor,  \* the oldest list an address that is shown may come from
  shown   \* the addresses the connection works with

Init ==
  /\ lists \in [{1} -> SUBSET Address]
  /\ floor = 1
  /\ shown = {}

ServiceChanges ==
  /\ \E list \in SUBSET Address : lists' = Append(lists, list)
  /\ UNCHANGED <<floor, shown>>

Recent(from) == UNION {lists[i] : i \in from .. Len(lists)}

Show ==
  /\ floor' \in floor .. Len(lists)
  /\ shown' \in SUBSET Recent(floor')
  /\ Cardinality(shown') <= Limit
  /\ UNCHANGED lists

Next == ServiceChanges \/ Show

Spec == Init /\ [][Next]_<<lists, floor, shown>>
=============================================================================
