------------------------------ MODULE BucketRing ------------------------------
(***************************************************************************)
(* The ring of buckets behind the sliding windows of the hystrix and the   *)
(* SRE breaker: `rotate_locked` and `bucket_index`, which the two crates   *)
(* (and the BBR limiter) repeat line by line.                              *)
(*                                                                         *)
(* The slot in use is a function of the time since construction; how many  *)
(* buckets to clear is a function of the time since the last rotation that *)
(* cleared something.  The two clocks drift apart.  Time is counted in     *)
(* ticks, of which a bucket lasts BucketTicks; only the position on the    *)
(* ring and the time since the rotation, up to a full window, matter.      *)
(***************************************************************************)
EXTENDS Integers

CONSTANTS
  Buckets,     \* bucket_count
  BucketTicks  \* bucket_duration, in ticks

ASSUME RingAssumption ==
  /\ Buckets \in Nat \ {0}
  /\ BucketTicks \in Nat \ {0}

VARIABLES
  phase,  \* (now - start) modulo the window
  since,  \* now - last_rotate, up to a window
  reqs,   \* the requests of each bucket
  errs    \* the errors of each bucket

ring == <<phase, since, reqs, errs>>

Slots == 0..(Buckets - 1)
Window == Buckets * BucketTicks

bucket_index == phase \div BucketTicks
Steps == since \div BucketTicks

\* The buckets that rotate_locked clears now.
Cleared ==
  IF Steps >= Buckets
  THEN Slots
  ELSE {(bucket_index + Buckets - Steps + offset + 1) % Buckets :
          offset \in 0..(Steps - 1)}

Rotated(f) == [i \in Slots |-> IF i \in Cleared THEN 0 ELSE f[i]]
SinceRotated == IF Steps = 0 THEN since ELSE 0

Sum(f) ==
  LET upto[i \in 0..Buckets] == IF i = 0 THEN 0 ELSE upto[i - 1] + f[i - 1]
  IN  upto[Buckets]

RingInit ==
  /\ phase = 0
  /\ since = 0
  /\ reqs = [i \in Slots |-> 0]
  /\ errs = [i \in Slots |-> 0]

\* Time passes.
RingTick ==
  /\ phase' = (phase + 1) % Window
  /\ since' = IF since < Window THEN since + 1 ELSE Window
  /\ UNCHANGED <<reqs, errs>>

\* An admission looks at the window: rotate, nothing else.
Rotate ==
  /\ reqs' = Rotated(reqs)
  /\ errs' = Rotated(errs)
  /\ since' = SinceRotated
  /\ UNCHANGED phase

\* An outcome is counted: rotate, then add it to the bucket in use.  Each reads
\* the clock: between the two the next bucket may begin, whose old content is
\* then still there.
Count(error, between) ==
  LET i == IF between THEN (bucket_index + 1) % Buckets ELSE bucket_index
  IN  /\ between => (phase + 1) % BucketTicks = 0
      /\ reqs' = [Rotated(reqs) EXCEPT ![i] = @ + 1]
      /\ errs' = [Rotated(errs) EXCEPT ![i] = @ + error]
      /\ since' = IF between THEN SinceRotated + 1 ELSE SinceRotated
      /\ phase' = IF between THEN (phase + 1) % Window ELSE phase

\* Mutant of Reset: the buckets survive a recovery.
ResetNothing == Rotate

\* reset_buckets_locked, after a rotation: every bucket is empty.
Reset ==
  /\ reqs' = [i \in Slots |-> 0]
  /\ errs' = [i \in Slots |-> 0]
  /\ since' = SinceRotated
  /\ UNCHANGED phase

RingTypeOK ==
  /\ phase \in 0..(Window - 1)
  /\ since \in 0..Window
  /\ reqs \in [Slots -> Nat]
  /\ errs \in [Slots -> Nat]
===============================================================================
