------------------------------ MODULE LiveWindow ------------------------------
(***************************************************************************)
(* What the server promises its clients: of each stream the directory      *)
(* offers complete playlists, each names the newest segments there were    *)
(* when it was made, numbers only go up, and what the newest playlists     *)
(* rely on stays.  Who deletes what, in which order and how far behind is  *)
(* not said here.  MpdStore is shown to implement this.                    *)
(***************************************************************************)
EXTENDS Integers, FiniteSets

CONSTANTS
  Streams,
  N_COUNT,        \* segments a playlist names
  KeptPlaylists,  \* so many of the newest playlists are never withdrawn
  KeptWhole       \* of so many no segment is withdrawn either

VARIABLES  \* of each stream
  produced,  \* segments so far; they are numbered from 1
  latest,    \* number of the newest playlist that was ever offered
  offered,   \* playlists a client can fetch: a number and the newest segment named
  withdrawn  \* segments a client can no longer fetch

vars == <<produced, latest, offered, withdrawn>>

Playlist == [no : Nat, seg : Nat]

\* The segments a playlist names.
Names(p) == {n \in 1..p.seg : n > p.seg - N_COUNT}

Newer(s, p) == Cardinality({q \in offered[s] : q.no > p.no})

Init == /\ produced = [s \in Streams |-> 0] /\ latest = [s \in Streams |-> 0]
        /\ offered = [s \in Streams |-> {}] /\ withdrawn = [s \in Streams |-> {}]

Produce(s) ==
  /\ produced' = [produced EXCEPT ![s] = @ + 1]
  /\ UNCHANGED <<latest, offered, withdrawn>>

\* The playlist of the newest segments; what it names is there.
Publish(s) ==
  LET p == [no |-> latest[s] + 1, seg |-> produced[s]]
  IN /\ Names(p) \cap withdrawn[s] = {}
     /\ \A q \in offered[s] : q.seg < p.seg
     /\ offered' = [offered EXCEPT ![s] = @ \cup {p}]
     /\ latest' = [latest EXCEPT ![s] = p.no]
     /\ UNCHANGED <<produced, withdrawn>>

WithdrawPlaylist(s, p) ==
  /\ Newer(s, p) >= KeptPlaylists
  /\ offered' = [offered EXCEPT ![s] = @ \ {p}]
  /\ UNCHANGED <<produced, latest, withdrawn>>

WithdrawSegment(s, n) ==
  /\ \A p \in offered[s] : n \in Names(p) => Newer(s, p) >= KeptWhole
  /\ withdrawn' = [withdrawn EXCEPT ![s] = @ \cup {n}]
  /\ UNCHANGED <<produced, latest, offered>>

Next == \E s \in Streams :
          \/ Produce(s) \/ Publish(s)
          \/ \E p \in offered[s] : WithdrawPlaylist(s, p)
          \/ \E n \in 1..produced[s] : WithdrawSegment(s, n)

Spec == Init /\ [][Next]_vars
==============================================================================
