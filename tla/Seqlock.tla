------------------------------ MODULE Seqlock ------------------------------
(***************************************************************************)
(* The seqlock of content/34-seqlock-for-market-data.md: one writer that   *)
(* never waits, and readers that copy and try again.  The payload is an    *)
(* array of relaxed atomic words, as in WordSeqlock.  Readers do not see   *)
(* each other, so one stands for all.                                      *)
(*                                                                         *)
(* Memory keeps every store made to a location, in order.  A load may      *)
(* return any store that its thread's view has not left behind; a store    *)
(* carries the view its thread had at its last release fence, which an     *)
(* acquire load takes over at once and a relaxed one at the next acquire   *)
(* fence.  Payload number g is the word g everywhere.                      *)
(*                                                                         *)
(* MaxStores bounds the writer.  SeqWord is 2^32 in the code.              *)
(***************************************************************************)
EXTENDS Integers, Sequences, SequencesExt

CONSTANTS Word, seq_, MaxStores, SeqWord

\* A reader does not sleep through a whole cycle of the counter.
ASSUME SeqlockAssumption ==
  /\ seq_ \notin Word /\ MaxStores \in Nat
  /\ SeqWord \in Nat /\ SeqWord % 2 = 0 /\ 2 * (MaxStores + 1) < SeqWord

Loc == Word \cup {seq_}

VARIABLES mem,         \* [Loc -> the stores made, oldest first: [val, view]]
          writer, s, gen, unwritten, released,
          reader, before, tmp, view, pending,
          loaded          \* what the last load returned, and the payload its counter stood for
memory == <<mem>>
writers == <<writer, s, gen, unwritten, released>>
readers == <<reader, before, tmp, view, pending, loaded>>
seqlock == <<memory, writers, readers>>

Oldest == [l \in Loc |-> 1]
Latest == [l \in Loc |-> Len(mem[l])]
Later(u, v) == [l \in Loc |-> IF u[l] < v[l] THEN v[l] ELSE u[l]]
Payload(g) == [w \in Word |-> g]

SeqlockInit ==
  /\ mem = [l \in Loc |-> <<[val |-> 0, view |-> Oldest]>>]
  /\ writer = "idle" /\ s = 0 /\ gen = 0 /\ unwritten = {} /\ released = Oldest
  /\ reader = "begin" /\ before = 0 /\ tmp = Payload(0) /\ view = Oldest /\ pending = Oldest
  /\ loaded = [words |-> Payload(0), oldest |-> 0]
------------------------------------------------------------------------------
(* store *)

\* The store of val to l, with the view its thread had at its last release fence.
Stored(l, val, fenced) ==
  LET itself == [Oldest EXCEPT ![l] = Len(mem[l]) + 1]
  IN [mem EXCEPT ![l] = Append(@, [val |-> val % SeqWord, view |-> Later(fenced, itself)])]

FenceLeftOut == released
FirstFence == [Latest EXCEPT ![seq_] = @ + 1]     \* it follows the odd store
SecondFence == Latest

OddStore ==
  /\ writer = "idle" /\ gen < MaxStores
  /\ s' = Last(mem[seq_]).val
  /\ mem' = Stored(seq_, s' + 1, released)
  /\ released' = FirstFence
  /\ gen' = gen + 1 /\ unwritten' = Word /\ writer' = "copy"
  /\ UNCHANGED readers

StoreWord(w) ==
  /\ writer = "copy" /\ w \in unwritten
  /\ mem' = Stored(w, gen, released)
  /\ unwritten' = unwritten \ {w}
  /\ UNCHANGED <<writer, s, gen, released, readers>>

SettledOdd == s + 1
Settled == s + 2

EvenStore ==
  /\ writer = "copy" /\ unwritten = {}
  /\ released' = SecondFence
  /\ mem' = Stored(seq_, Settled, released')
  /\ writer' = "idle"
  /\ UNCHANGED <<s, gen, unwritten, readers>>
------------------------------------------------------------------------------
(* load, the loop around try_load *)

Loads(l, n) == n \in view[l] .. Len(mem[l])
Retry == reader' = "begin"

LoadBefore ==
  /\ reader = "begin"
  /\ \E n \in 1 .. Len(mem[seq_]) :
       /\ Loads(seq_, n)
       /\ before' = mem[seq_][n].val
       /\ view' = Later([view EXCEPT ![seq_] = n], mem[seq_][n].view)
  /\ IF before' % 2 = 1 THEN Retry ELSE reader' = "copy"
  /\ pending' = view' /\ tmp' = [w \in Word |-> -1]
  /\ UNCHANGED <<memory, writers, loaded>>

LoadWord(w) ==
  /\ reader = "copy" /\ tmp[w] = -1
  /\ \E n \in 1 .. Len(mem[w]) :
       /\ Loads(w, n)
       /\ tmp' = [tmp EXCEPT ![w] = mem[w][n].val]
       /\ view' = [view EXCEPT ![w] = n]
       /\ pending' = Later([pending EXCEPT ![w] = n], mem[w][n].view)
  /\ UNCHANGED <<memory, writers, reader, before, loaded>>

Fenced == Later(view, pending)

Check ==
  /\ reader = "copy" /\ \A w \in Word : tmp[w] # -1
  /\ \E n \in 1 .. Len(mem[seq_]) :
       /\ n >= Fenced[seq_]
       /\ view' = [Fenced EXCEPT ![seq_] = n]
       /\ IF mem[seq_][n].val = before
          THEN /\ loaded' = [words |-> tmp, oldest |-> before \div 2]
               /\ reader' = "returned"
          ELSE Retry /\ UNCHANGED loaded
  /\ UNCHANGED <<memory, writers, before, tmp, pending>>

LoadAgain ==
  /\ reader = "returned" /\ Retry
  /\ UNCHANGED <<memory, writers, before, tmp, view, pending, loaded>>

\* The writing process dies in the middle of an update; nobody else stores.
Crash == /\ writer = "copy" /\ writer' = "dead"
         /\ UNCHANGED <<memory, s, gen, unwritten, released, readers>>

Writer == OddStore \/ EvenStore \/ Crash \/ \E w \in Word : StoreWord(w)
Reader == LoadBefore \/ Check \/ LoadAgain \/ \E w \in Word : LoadWord(w)

SeqlockNext == Writer \/ Reader

\* The reader runs on, and what the writer has stored becomes visible to it; the writer
\* may stop wherever it is.
SeesLatest == LoadBefore /\ view'[seq_] = Len(mem[seq_])
SeqlockSpec == /\ SeqlockInit /\ [][SeqlockNext]_seqlock
               /\ WF_seqlock(Reader) /\ SF_seqlock(SeesLatest)
------------------------------------------------------------------------------
(* Properties *)

\* "clean snapshot": what load returns is one payload, never a mixture of two, although
\* every load and every store may be seen late.
NeverTorn == \E g \in 0 .. gen : loaded.words = Payload(g)

\* It is the payload the counter stood for when the copy began, so that a reader that has
\* seen a version number, or an earlier payload, is never given an older one.
AsNewAsItsVersion == \A w \in Word : loaded.words[w] >= loaded.oldest

\* A load returns one payload, whole, and none older than the version it was read under.
CleanSnapshot == NeverTorn /\ AsNewAsItsVersion

\* A reader is let through again and again once the writer rests between two stores: the
\* retries end.
ReadersGetThrough ==
  <>[](writer = "idle" /\ gen > 0) => []<>(reader = "returned")
==============================================================================
