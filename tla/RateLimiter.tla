---------------------------- MODULE RateLimiter ----------------------------
(***************************************************************************)
(* The two limiters in front of the contact form (per visitor, and per     *)
(* business) and of sign-in (per email, and per client address): an        *)
(* attempt is admitted if both allow it, in this order. Each               *)
(* SlidingWindowLimiter keeps one deque of times per key, oldest first.    *)
(* An attempt is admitted in one go: allow() does not await.               *)
(***************************************************************************)
EXTENDS Naturals, Sequences

CONSTANTS
  Window,        (* the length of the window, in ticks of the clock        *)
  Limit,         (* of the first limiter                                   *)
  GroupLimit,    (* of the second                                          *)
  Visitor,       (* keys of the first: visitors, or emails                 *)
  Group,         (* keys of the second: businesses, or client addresses    *)
  Horizon        (* bound: the last tick of an instance                    *)

ASSUME LimiterAssumption ==
  Window \in Nat /\ Limit \in Nat \ {0} /\ GroupLimit \in Nat \ {0} /\ Horizon \in Nat

VARIABLES
  now,
  hits, groupHits,   (* the deques of the two limiters                     *)
  log, groupLog,     (* every attempt they recorded since the last reset   *)
  underway,          (* emails of which some sign-in was admitted          *)
  refused            (* what refused the last attempt, if anything did     *)

limiterVars == <<now, hits, groupHits, log, groupLog, underway, refused>>

LimiterTypeOK ==
  /\ now \in Nat
  /\ hits \in [Visitor -> Seq(Nat)] /\ log \in [Visitor -> Seq(Nat)]
  /\ groupHits \in [Group -> Seq(Nat)] /\ groupLog \in [Group -> Seq(Nat)]
  /\ underway \in SUBSET Visitor
  /\ refused \in {<<>>} \cup ({"visitor"} \X Visitor) \cup ({"group"} \X Group)

LimiterInit ==
  /\ now = 0
  /\ hits = [v \in Visitor |-> <<>>] /\ log = hits
  /\ groupHits = [g \in Group |-> <<>>] /\ groupLog = groupHits
  /\ underway = {} /\ refused = <<>>

-----------------------------------------------------------------------------
Expired(hit, t) == hit + Window <= t

(* allow() drops hits from the left until one is still in the window.      *)
Recent(times, t) ==
  LET dropped == CHOOSE n \in 0 .. Len(times) :
                   /\ \A i \in 1 .. n : Expired(times[i], t)
                   /\ n < Len(times) => ~Expired(times[n + 1], t)
  IN  SubSeq(times, dropped + 1, Len(times))

MutantAllows(times, limit, t) == Len(Recent(times, t)) <= limit

Allows(times, limit, t) == Len(Recent(times, t)) < limit

(* A refused attempt does not count.                                       *)
Recorded(times, limit, t) ==
  IF Allows(times, limit, t) THEN Append(Recent(times, t), t) ELSE Recent(times, t)

Logged(entries, times, limit, t) == IF Allows(times, limit, t) THEN Append(entries, t) ELSE entries

(* visitor.allow(v) and group.allow(g): the second is asked only if the    *)
(* first allows, which keeps the attempt even if the second refuses it.    *)
Attempt(v, g) ==
  LET first == Allows(hits[v], Limit, now)
      second == Allows(groupHits[g], GroupLimit, now)
  IN  /\ hits' = [hits EXCEPT ![v] = Recorded(@, Limit, now)]
      /\ log' = [log EXCEPT ![v] = Logged(@, hits[v], Limit, now)]
      /\ groupHits' = [groupHits EXCEPT ![g] = IF first THEN Recorded(@, GroupLimit, now) ELSE @]
      /\ groupLog' = [groupLog EXCEPT ![g] = IF first THEN Logged(@, groupHits[g], GroupLimit, now) ELSE @]
      /\ refused' = IF ~first THEN <<"visitor", v>> ELSE IF ~second THEN <<"group", g>> ELSE <<>>
      /\ underway' = IF first /\ second THEN underway \cup {v} ELSE underway
      /\ UNCHANGED now

(* A sign-in that succeeds, some time after it was admitted, resets the    *)
(* limiter of its email; one that fails, like a message, does not.         *)
SignedIn(v) ==
  /\ v \in underway
  /\ hits' = [hits EXCEPT ![v] = <<>>]
  /\ log' = [log EXCEPT ![v] = <<>>]
  /\ refused' = <<>>
  /\ UNCHANGED <<now, groupHits, groupLog, underway>>

Tick ==
  /\ now < Horizon
  /\ now' = now + 1
  /\ refused' = <<>>
  /\ UNCHANGED <<hits, groupHits, log, groupLog, underway>>

LimiterNext ==
  \/ Tick
  \/ \E v \in Visitor : SignedIn(v) \/ \E g \in Group : Attempt(v, g)

LimiterSpec == LimiterInit /\ [][LimiterNext]_limiterVars

-----------------------------------------------------------------------------
(* Properties *)

(* No window of the given length holds more than the limit.                *)
Spaced(entries, limit) ==
  \A i \in 1 .. Len(entries) : i + limit <= Len(entries) => entries[i] + Window <= entries[i + limit]

(* "a flood can't bury a queue": whatever the visitors do, no stretch of   *)
(* one window admits more attempts of a visitor than the limit (since he   *)
(* last signed in), nor more of a business than its limit.                 *)
FloodIsLimited ==
  /\ \A v \in Visitor : Spaced(log[v], Limit)
  /\ \A g \in Group : Spaced(groupLog[g], GroupLimit)

(* The entries within the window are at least the limit.                   *)
Used(entries, limit) ==
  Len(entries) >= limit /\ entries[Len(entries) + 1 - limit] + Window > now

(* Nobody is turned away sooner: a refused attempt found its limiter full  *)
(* of attempts of the last window, refused attempts not counted.           *)
RefusedOnlyAtLimit ==
  /\ \A v \in Visitor : refused = <<"visitor", v>> => Used(log[v], Limit)
  /\ \A g \in Group : refused = <<"group", g>> => Used(groupLog[g], GroupLimit)

(* The limit is what it says: no more, and no fewer.                       *)
LimitIsExact == FloodIsLimited /\ RefusedOnlyAtLimit
=============================================================================
