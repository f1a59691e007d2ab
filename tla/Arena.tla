------------------------------- MODULE Arena -------------------------------
(***************************************************************************)
(* Arena of examples/static_vector.hpp: a bump allocator over a buffer the *)
(* caller supplies, whose address need not be aligned.  Addresses are      *)
(* numbers of Memory bytes; the mask of allocate rounds up to a multiple   *)
(* of a power of two.                                                      *)
(***************************************************************************)
EXTENDS Integers

CONSTANTS Begin, Bytes,      \* the buffer
          Memory,            \* how many addresses a pointer can tell apart
          Sizes, Aligns,     \* what the callers ask for
          nullptr

End == Begin + Bytes

\* A request is small beside the address space: aligned + bytes does not wrap.
ASSUME ArenaAssumption ==
  /\ Begin \in Nat /\ Bytes \in Nat /\ Sizes \subseteq Nat \ {0}
  /\ Aligns \subseteq Nat \ {0} /\ \A align \in Aligns : align \in {2^k : k \in 0 .. 12}
  /\ Memory \in Nat /\ End < Memory
  /\ \A size \in Sizes, align \in Aligns : End + align + size < Memory
  /\ nullptr \notin 0 .. Memory

VARIABLES cursor,
          blocks,    \* what has been handed out since the last reset: [at, bytes, align]
          last       \* the last request and its answer

arena == <<cursor, blocks, last>>

NoRequest == [at |-> Begin, bytes |-> 0, align |-> 1]
ArenaInit == cursor = Begin /\ blocks = {} /\ last = NoRequest
------------------------------------------------------------------------------
AlignedTruncated(addr, align) == (addr \div align) * align
Aligned(addr, align) == (((addr + align - 1) % Memory) \div align) * align

Exhausted(at, bytes) == (at + bytes) % Memory > End

Granted(bytes, align) ==
  LET at == Aligned(cursor, align)
      block == [at |-> at, bytes |-> bytes, align |-> align]
  IN /\ ~Exhausted(at, bytes)
     /\ cursor' = (at + bytes) % Memory
     /\ last' = block
     /\ \/ blocks' = blocks \cup {block}
        \/ UNCHANGED blocks            \* the constructor create runs there threw

Refused(bytes, align) ==
  /\ Exhausted(Aligned(cursor, align), bytes)
  /\ last' = [at |-> nullptr, bytes |-> bytes, align |-> align]
  /\ UNCHANGED <<cursor, blocks>>

\* Every object made since the last reset is given up.
Reset == cursor' = Begin /\ blocks' = {} /\ last' = NoRequest

ArenaNext ==
  \/ Reset
  \/ \E bytes \in Sizes, align \in Aligns : Granted(bytes, align) \/ Refused(bytes, align)

ArenaSpec == ArenaInit /\ [][ArenaNext]_arena
------------------------------------------------------------------------------
(* Properties *)

\* Whatever is asked for in whatever order: every block in use lies in the buffer at the
\* alignment its type needs, and no two share a byte.
Span(b) == b.at .. b.at + b.bytes - 1
BlocksApart ==
  /\ \A b \in blocks : Span(b) \subseteq Begin .. End - 1 /\ b.at % b.align = 0
  /\ \A b, c \in blocks : b # c => Span(b) \cap Span(c) = {}

\* allocate returns nullptr only when the rest of the buffer has no aligned place of that
\* size: padding is the only space an arena wastes.
RefusedOnlyWhenFull ==
  last.at = nullptr =>
    \A at \in cursor .. End : at % last.align = 0 => at + last.bytes > End

\* allocate gives an aligned block of its own as long as there is one, and only then.
ArenaExact == BlocksApart /\ RefusedOnlyWhenFull
==============================================================================
