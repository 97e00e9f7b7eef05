---------------------------- MODULE MCHelloCdev ----------------------------
(***************************************************************************)
(* An instance of HelloCdev for TLC: the offsets go below 0, past the end  *)
(* and past the range of an unsigned int.  Files are interchangeable, so   *)
(* one way to share a file and one way not to are enough.                  *)
(***************************************************************************)
EXTENDS HelloCdev

SomeOffsets == {-1, 1, 5}

Shared == CHOOSE fds \in [Tasks -> Files] : \A t, u \in Tasks : fds[t] = fds[u]
Private == CHOOSE fds \in [Tasks -> Files] : \A t, u \in Tasks : fds[t] = fds[u] => t = u
SharedOrPrivate == {Shared, Private}
=============================================================================
