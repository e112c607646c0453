------------------------------ MODULE AudioRing ------------------------------
(***************************************************************************)
(* SoDa::CircularBuffer (src/common/CircularBuffer.hxx) as operators on a  *)
(* record: the storage, two positions in it and two running totals.  How   *)
(* much it holds is told by the totals and where by the positions; only    *)
(* what the calls do to each keeps the two in step.                        *)
(*                                                                         *)
(* Each call is one step: the users, AudioRXListener and AudioRecorder,    *)
(* are called by the event loop of the GUI.                                *)
(***************************************************************************)
EXTENDS Integers, Sequences

Places(r) == 0 .. r.buffer_elements - 1

\* A buffer of n elements, empty.
NewRing(n, filler) ==
  [buffer |-> [p \in 0 .. n - 1 |-> filler], buffer_elements |-> n,
   head |-> 0, tail |-> 0, num_written |-> 0, num_read |-> 0]

Cleared(r) == [r EXCEPT !.head = 0, !.tail = 0, !.num_written = 0, !.num_read = 0]

WrapBufferPointer(r, p, n) == (p + n) % r.buffer_elements

Backlog(r) == r.num_written - r.num_read

NumElements(r) ==
  IF Backlog(r) > r.buffer_elements THEN r.buffer_elements ELSE Backlog(r)

\* numElements() also writes off what a put has overwritten.
Counted(r) == [r EXCEPT !.num_read = r.num_written - NumElements(r)]

\* put() copies up to the end of the buffer, as often as it takes; a place
\* passed more than once keeps what came last.
Copied(r, in) ==
  LET off(p) == (p - r.head) % r.buffer_elements
      last(p) == off(p) + r.buffer_elements
                            * ((Len(in) - 1 - off(p)) \div r.buffer_elements)
  IN [Counted(r) EXCEPT
        !.buffer = [p \in Places(r) |->
                      IF off(p) < Len(in) THEN in[last(p) + 1] ELSE r.buffer[p]],
        !.head = WrapBufferPointer(r, @, Len(in)),
        !.num_written = @ + Len(in)]

\* Negative control: the tail stays behind.
PutNoLock(r, in) == Copied(r, in)

\* It has decided before whether the tail must follow the head.
Put(r, in) ==
  LET lock_head_tail == NumElements(r) + Len(in) > r.buffer_elements
      c == Copied(r, in)
  IN IF lock_head_tail THEN [c EXCEPT !.tail = c.head] ELSE c

\* What get(out, len) copies, and what it leaves.
Given(r, len) == IF len > NumElements(r) THEN NumElements(r) ELSE len
Out(r, len) ==
  [i \in 1 .. Given(r, len) |-> r.buffer[WrapBufferPointer(r, r.tail, i - 1)]]

\* Negative control: only the piece before the end of the buffer is taken off.
GotFirstPiece(r, len) ==
  LET pre_len == r.buffer_elements - r.tail
      n == IF Given(r, len) < pre_len THEN Given(r, len) ELSE pre_len
  IN [Counted(r) EXCEPT !.tail = WrapBufferPointer(r, r.tail, n),
                        !.num_read = @ + Given(r, len)]

Got(r, len) ==
  [Counted(r) EXCEPT !.tail = WrapBufferPointer(r, r.tail, Given(r, len)),
                     !.num_read = @ + Given(r, len)]

\* All that a reader would get.
Readable(r) == Out(r, r.buffer_elements)
=============================================================================
