--------------------------- MODULE PieceLifecycle ---------------------------
(***************************************************************************)
(* What piece_tracker.rs and STATE.md promise of a piece, without saying   *)
(* how: it is NOT_NEEDED, QUEUED, IN_FLIGHT with one owner, HAVE, or, from *)
(* its last chunk to the answer of the hash check, HASHING.  LivePieces    *)
(* implements it with three bit fields, a map and the tasks of the peers.  *)
(***************************************************************************)
CONSTANTS Piece, Peer, NoPeer

VARIABLES status, owner

lifeVars == <<status, owner>>

LifeInit ==
  /\ status \in [Piece -> {"NOT_NEEDED", "QUEUED", "HAVE"}]
  /\ owner = [p \in Piece |-> NoPeer]

Moves(p, from, to) ==
  /\ status[p] = from
  /\ status' = [status EXCEPT ![p] = to]

\* A queued piece is assigned to a peer.
Reserve(p, peer) ==
  /\ Moves(p, "QUEUED", "IN_FLIGHT")
  /\ owner' = [owner EXCEPT ![p] = peer]

\* "A piece is only assigned to one peer at a time (unless stolen)".
Steal(p, peer) ==
  /\ status[p] = "IN_FLIGHT" /\ owner[p] # peer
  /\ owner' = [owner EXCEPT ![p] = peer]
  /\ UNCHANGED status

\* "Pieces are properly requeued when a peer dies": all it owned, at once.
Release(peer) ==
  /\ status' = [p \in Piece |-> IF owner[p] = peer THEN "QUEUED" ELSE status[p]]
  /\ owner' = [p \in Piece |-> IF owner[p] = peer THEN NoPeer ELSE owner[p]]

\* The last chunk is there: nobody owns the piece while it is hashed.
Complete(p) ==
  /\ Moves(p, "IN_FLIGHT", "HASHING")
  /\ owner' = [owner EXCEPT ![p] = NoPeer]

Verify(p) == Moves(p, "HASHING", "HAVE") /\ UNCHANGED owner

Reject(p) == Moves(p, "HASHING", "QUEUED") /\ UNCHANGED owner

LifeNext ==
  \/ \E peer \in Peer : Release(peer)
  \/ \E p \in Piece : \/ Complete(p)
                      \/ Verify(p)
                      \/ Reject(p)
                      \/ \E peer \in Peer : Reserve(p, peer) \/ Steal(p, peer)

LifeSpec == LifeInit /\ [][LifeNext]_lifeVars
=============================================================================
