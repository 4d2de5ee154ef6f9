--------------------------- MODULE FixedSizeQueue ---------------------------
(***************************************************************************)
(* FixedSizeQueue<T, max_size>: a std::queue that makes room for a new     *)
(* element by dropping its oldest one.  EasyNmeaImpl keeps the decoded     *)
(* GPGGA samples in a FixedSizeQueue<std::shared_ptr<GPGGAData>, 10>.  The *)
(* container is a sequence with its front at index 1; size(), empty(),     *)
(* front() and pop() are those of std::queue: Len, = <<>>, Head and Tail.  *)
(***************************************************************************)
EXTENDS Naturals, Sequences

CONSTANT max_size  \* the template parameter: how many elements are kept, at least one

-----------------------------------------------------------------------------
\* Plausible slips in push(), used to show that the properties notice them.
PushOneTooMany(q, value) == Append(IF Len(q) > max_size THEN Tail(q) ELSE q, value)
PushDropsNewest(q, value) == IF Len(q) >= max_size THEN q ELSE Append(q, value)

\* push(): the front goes first when the container is already full.
Push(q, value) == Append(IF Len(q) >= max_size THEN Tail(q) ELSE q, value)

\* clear(): pop_front() until the container is empty.
Clear(q) == <<>>
=============================================================================
