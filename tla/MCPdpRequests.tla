--------------------------- MODULE MCPdpRequests ----------------------------
(***************************************************************************)
(* Snapshots for PdpRequests: none, one and two ids, one that repeats an   *)
(* id at once, one after another id, and one that spells it otherwise.     *)
(***************************************************************************)
EXTENDS PdpRequests

CONSTANTS a, b, permit

Member(id, spelling, decision) == [id |-> id, spelling |-> spelling, decision |-> decision]

Plain(id, decision) == Member(id, "plain", decision)

MCSnapshots ==
    { << >>,
      << Plain(a, permit) >>,
      << Plain(a, permit), Plain(b, Malformed) >>,
      << Plain(a, Indeterminate), Plain(a, permit) >>,
      << Plain(a, Indeterminate), Plain(b, permit), Plain(a, permit) >>,
      << Member(a, "escaped", Indeterminate), Plain(a, permit) >> }

=============================================================================
