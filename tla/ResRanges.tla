----------------------------- MODULE ResRanges -----------------------------
(***************************************************************************)
(* The arithmetic of onldb::make_reservation (src/database/src/onldb.cc):  *)
(* times are forced into slots, and the range of begin times the user asks *)
(* for is cut down, first by the weekly usage limits and then by the times *)
(* the user already holds, to the ranges that are tried.                   *)
(*                                                                         *)
(* A range [b1, b2] holds the first and the last begin time.  The code     *)
(* carries the two end times e1 = b1 + len and e2 = b2 + len along; here   *)
(* they are computed.  A span [begin, end] is the time of a reservation.   *)
(***************************************************************************)
EXTENDS Integers, Sequences, FiniteSets, FiniteSetsExt, SequencesExt

CONSTANTS Slot,      \* clock ticks in a slot (60/divisor minutes)
          WeekLen    \* clock ticks in a week, a multiple of Slot

ASSUME SlotAssumption == Slot \in Nat \ {0} /\ WeekLen \in Nat \ {0}

\* The start of the slot, and of the week, that a time is in.
discretize_time(t) == t - (t % Slot)

get_start_of_week(t) == t - (t % WeekLen)

\* A length rounded up to whole slots.
RoundLen(len) == ((len - 1) \div Slot + 1) * Slot

Overlaps(s, b, e) == s.begin < e /\ s.end > b

(***************************************************************************)
(* The range of begin times after the checks made before the lock is       *)
(* taken, or the reason to refuse the request.                             *)
(***************************************************************************)
RequestedRange(now, begin1, begin2, len, horizon) ==
  LET cur   == discretize_time(now)
      d1    == discretize_time(begin1)
      d2    == Max({d1, discretize_time(begin2)})
      limit == cur + horizon
  IN IF d1 < cur /\ d2 < cur THEN [ok |-> FALSE, why |-> "past"]
     ELSE IF Max({d1, cur}) + len > limit THEN [ok |-> FALSE, why |-> "far"]
     ELSE [ok |-> TRUE, b1 |-> Max({d1, cur}), b2 |-> Min({d2, limit - len})]

-----------------------------------------------------------------------------
(* Weekly usage.  spans holds the reservations that count, as <<rid, span>>  *)

\* The ticks of one week that a set of reservations uses.
Usage(spans, ws) ==
  MapThenSumSet(LAMBDA p : Min({p[2].end, ws + WeekLen}) - Max({p[2].begin, ws}),
                {p \in spans : Overlaps(p[2], ws, ws + WeekLen)})

\* The most that a reservation of this range could use of the week.
MaxWeekLength(b1, e2, len, ws) ==
  Min({len, IF b1 < ws /\ e2 > ws + WeekLen THEN WeekLen
            ELSE IF b1 < ws THEN e2 - ws
            ELSE IF e2 > ws + WeekLen THEN ws + WeekLen - b1
            ELSE len})

(***************************************************************************)
(* One round of the loop over the weeks.  A week without room for the      *)
(* request cuts the range at the time that is left of it; the range itself *)
(* is kept by the week that holds its last end.                            *)
(***************************************************************************)
WeekStep(acc, ws, len, num, userSpans, userMax, grpSpans, grpMax) ==
  LET use   == MaxWeekLength(acc.b1, acc.b2 + len, len, ws) * num
      uu    == Usage(userSpans, ws)
      gu    == Usage(grpSpans, ws)
      slack == Max({0, Min({userMax - uu, grpMax - gu})})
      cutb  == ws + slack
      cute  == ws + WeekLen - slack
  IN IF uu + use > userMax \/ gu + use > grpMax
     THEN [out |-> IF acc.b1 < cutb /\ cutb >= acc.b1 + len
                   THEN Append(acc.out, [b1 |-> acc.b1, b2 |-> cutb - len])
                   ELSE acc.out,
           b1 |-> IF acc.b2 + len > cute /\ cute <= acc.b2 THEN cute ELSE acc.b1,
           b2 |-> acc.b2]
     ELSE IF acc.b2 + len < ws + WeekLen
     THEN [acc EXCEPT !.out = Append(@, [b1 |-> acc.b1, b2 |-> acc.b2])]
     ELSE acc

\* What the usage limits leave of a range.
WeekRanges(tr, len, num, userSpans, userMax, grpSpans, grpMax) ==
  LET first == get_start_of_week(tr.b1)
      last  == get_start_of_week(tr.b2 + len)
      weeks == [i \in 1..((last - first) \div WeekLen + 1) |->
                  first + (i - 1) * WeekLen]
  IN FoldLeft(LAMBDA acc, ws : WeekStep(acc, ws, len, num, userSpans, userMax,
                                        grpSpans, grpMax),
              [out |-> <<>>, b1 |-> tr.b1, b2 |-> tr.b2], weeks).out

-----------------------------------------------------------------------------
(* The times the user already holds.                                        *)

(***************************************************************************)
(* One round of the loop over the user's reservations, in the order of     *)
(* their begin: the time before it becomes a range of its own, the range   *)
(* goes on after it, and left says that this rest is to be kept.           *)
(***************************************************************************)
OwnStep(acc, s, len) ==
  LET before   == acc.b1 < s.begin /\ s.begin >= acc.b1 + len
      after    == acc.b2 + len > s.end /\ s.end <= acc.b2
      b1       == IF after THEN s.end ELSE acc.b1
      unusable == b1 + len >= s.begin /\ acc.b2 < s.end
  IN IF acc.stop THEN acc
     ELSE [b1   |-> b1,
           b2   |-> acc.b2,
           out  |-> IF before THEN Append(acc.out, [b1 |-> acc.b1,
                                                    b2 |-> s.begin - len])
                    ELSE acc.out,
           left |-> (acc.left \/ after) /\ ~unusable,
           stop |-> unusable]

\* What the user's own reservations leave of a range.
OwnRanges(tr, len, spans) ==
  LET own == {p \in spans : Overlaps(p[2], tr.b1, tr.b2 + len)}
      seq == SetToSortSeq(own, LAMBDA p, q : p[2].begin < q[2].begin)
      end == FoldLeft(LAMBDA acc, p : OwnStep(acc, p[2], len),
                      [b1 |-> tr.b1, b2 |-> tr.b2, out |-> <<>>,
                       left |-> FALSE, stop |-> FALSE], seq)
  IN IF own = {} THEN <<tr>>
     ELSE IF end.left THEN Append(end.out, [b1 |-> end.b1, b2 |-> end.b2])
     ELSE end.out

-----------------------------------------------------------------------------
(* The begin times that are tried.                                          *)

\* Where the resources in use can change: a begin or an end inside the range.
TimesOfInterest(tr, len, spans) ==
  LET hits == {p[2] : p \in {q \in spans : Overlaps(q[2], tr.b1, tr.b2 + len)}}
  IN {t \in {s.begin : s \in hits} \cup {s.end : s \in hits} :
        t > tr.b1 /\ t < tr.b2 + len}

\* The begin times of a range, a slot apart.
Starts(tr) == {t \in tr.b1..tr.b2 : (t - tr.b1) % Slot = 0}

\* Mutant: only the ends of the tried times are compared with the times of
\* interest.
TriedMut(tr, len, spans) ==
  LET toi == TimesOfInterest(tr, len, spans)
  IN {t \in Starts(tr) : t = tr.b1 \/ \E x \in toi : x <= t + len /\ x > t + len - Slot}

\* The first one, and those that reach a time of interest with their begin or
\* their end.
Tried(tr, len, spans) ==
  LET toi == TimesOfInterest(tr, len, spans)
      Reached(t) == \E x \in toi : x <= t /\ x > t - Slot
  IN {t \in Starts(tr) : t = tr.b1 \/ Reached(t) \/ Reached(t + len)}
=============================================================================
