------------------------------ MODULE TestCache ------------------------------
(***************************************************************************)
(* The cache of one project, .oxitest_cache/timings.json: how long a test  *)
(* took, how it ended and for how many runs it has not been executed       *)
(* (cache/mod.rs, timing.rs, outcome.rs).  The module entries of the same  *)
(* file are in Collection.  A duration is a number of milliseconds.        *)
(***************************************************************************)
EXTENDS Integers, Sequences, FiniteSets, SequencesExt

Retryable == {"failed", "error", "timeout"}   \* OutcomeKind::is_retryable_failure
MaxCount == 1                                 \* stands for u32::MAX of flaky_count

NoTimings == [id \in {} |-> <<>>]
EmptyCache == [timings |-> NoTimings, dirty |-> FALSE]

\* TestCache::load: a file that is missing, cut short or of another version
\* is an empty cache.
Load(file) == IF file.state = "written" THEN [timings |-> file.timings, dirty |-> FALSE] ELSE EmptyCache

\* TestCache::save: an unchanged cache is not written, and an error is ignored.
Save(cache, file, writes) ==
  IF cache.dirty /\ writes THEN [state |-> "written", timings |-> cache.timings] ELSE file

\* The file of a save that the end of the process cuts short.
Torn == [state |-> "torn", timings |-> NoTimings]

Only(timings, ids) == [id \in DOMAIN timings \cap ids |-> timings[id]]

LastFailedIds(cache) ==
  {id \in DOMAIN cache.timings : cache.timings[id].last_outcome \in Retryable}

\* TestCache::invalidate
Invalidate(cache, items) ==
  LET kept == Only(cache.timings, {i.id : i \in Range(items)})
  IN  [timings |-> kept, dirty |-> cache.dirty \/ DOMAIN kept # DOMAIN cache.timings]

Executed(timings) == {t.id : t \in Range(timings)}
LastOf(timings, id) ==
  LET at == {i \in DOMAIN timings : timings[i].id = id}
  IN  timings[CHOOSE i \in at : \A j \in at : j <= i]
NewEntry == [duration |-> 0, age |-> 0, last_outcome |-> "none", flaky_count |-> 0]

\* TestCache::merge_timings: what ran is young, what did not run grows older
\* and is dropped past max_age.
MergeTimings(cache, timings, maxAge) ==
  LET ran == Executed(timings)
      all == [id \in DOMAIN cache.timings \cup ran |->
                LET e == IF id \in DOMAIN cache.timings THEN cache.timings[id] ELSE NewEntry
                IN  IF id \in ran THEN [e EXCEPT !.duration = LastOf(timings, id).duration, !.age = 0]
                    ELSE [e EXCEPT !.age = @ + 1]]
      kept == Only(all, {id \in DOMAIN all : id \in ran \/ all[id].age <= maxAge})
  IN  [timings |-> kept, dirty |-> cache.dirty \/ timings # <<>> \/ DOMAIN kept # DOMAIN all]

\* TestCache::record_timing_outcomes
RecordTimingOutcomes(cache, timings) ==
  LET ran == Executed(timings) \cap DOMAIN cache.timings
      flaky(id) == Cardinality({i \in DOMAIN timings : timings[i].id = id /\ timings[i].outcome = "flaky"})
      least(a, b) == IF a < b THEN a ELSE b
  IN  [timings |-> [id \in DOMAIN cache.timings |->
                      IF id \notin ran THEN cache.timings[id]
                      ELSE [cache.timings[id] EXCEPT !.last_outcome = LastOf(timings, id).outcome,
                                                     !.flaky_count = least(@ + flaky(id), MaxCount)]],
       dirty |-> cache.dirty \/ ran # {}]

\* helpers::finalize, up to the save.
AfterRun(cache, timings, maxAge) ==
  RecordTimingOutcomes(MergeTimings(cache, timings, maxAge), timings)

(***************************************************************************)
(* Estimates.                                                              *)
(***************************************************************************)
Known(cache, items) == SelectSeq(items, LAMBDA i : i.id \in DOMAIN cache.timings)
SumMs(cache, items) == FoldLeft(LAMBDA sum, i : sum + cache.timings[i.id].duration, 0, Known(cache, items))

Unknown == -1    \* None

\* TestCache::module_duration_sum
ModuleDurationSum(cache, items) == IF Known(cache, items) = <<>> THEN Unknown ELSE SumMs(cache, items)

\* TestCache::estimated_duration: with less than half of the items known, the
\* weight of the source fills the gap in proportion.
EstimatedDuration(cache, items, astMs) ==
  LET covered == Len(Known(cache, items))
      total == Len(items)
  IN  CASE total = 0 -> Unknown
        [] covered * 2 >= total /\ total > 0 -> SumMs(cache, items)
        [] covered * 2 < total /\ astMs = Unknown -> Unknown
        [] covered * 2 < total /\ astMs # Unknown ->
             SumMs(cache, items) + (astMs * (total - covered)) \div total

\* TestCache::suggested_timeout_secs, the multiplier in tenths.
SuggestedTimeoutSecs(cache, item, tenths) ==
  IF item.id \notin DOMAIN cache.timings THEN Unknown
  ELSE LET ceil == (cache.timings[item.id].duration * tenths + 9999) \div 10000
       IN  IF ceil > 1 THEN ceil ELSE 1

\* execution::resolve_timeout; Unknown is None.
ResolveTimeout(cache, item, global, tenths) ==
  LET suggested == SuggestedTimeoutSecs(cache, item, tenths)
      floor == IF global = Unknown THEN 1 ELSE global
  IN  IF tenths = Unknown \/ suggested = Unknown THEN global
      ELSE IF suggested > floor THEN suggested ELSE floor

(***************************************************************************)
(* The order of the modules.                                               *)
(***************************************************************************)
\* TestCache::sort_groups: the heaviest known group first, then the unknown
\* ones by size.
Heavier(cache, a, b) ==
  LET sa == ModuleDurationSum(cache, a.items)
      sb == ModuleDurationSum(cache, b.items)
  IN  IF sa = Unknown /\ sb = Unknown THEN Len(a.items) > Len(b.items)
      ELSE sa > sb

Sorted(seq, Before(_, _)) ==
  LET rank(i) == Cardinality({j \in DOMAIN seq : Before(seq[j], seq[i]) \/ (~Before(seq[i], seq[j]) /\ j < i)})
  IN  [k \in DOMAIN seq |-> seq[CHOOSE i \in DOMAIN seq : rank(i) = k - 1]]

\* A slice's sort_by is stable.
SortGroups(cache, groups) == Sorted(groups, LAMBDA a, b : Heavier(cache, a, b))

\* scheduler::apply_schedule_strategy, as the orders it may give: a shuffle
\* gives any.
Scheduled(groups, strategy, cache, failed) ==
  LET sorted == SortGroups(cache, groups)
      hot(g) == \E i \in Range(g.items) : i.id \in failed
  IN  CASE strategy = "longest_first" -> {sorted}
        [] strategy = "failed_first" -> {Sorted(sorted, LAMBDA a, b : hot(a) /\ ~hot(b))}
        [] strategy = "random" -> SetToSeqs(Range(groups))
==============================================================================
