-------------------------- MODULE FixtureOwnership --------------------------
(* Whoever asks for a fixture gets a value of that fixture, for any suite of *)
(* fixtures and tests: what the steps of the session preserve, whichever     *)
(* loop takes them.                                                          *)
EXTENDS FixtureSession, SequenceTheorems, TLAPS

\* The time a leaf without a prover of its own may take.
USE SMTT(60), ZenonT(20), SMTT(61)

Tiers == {"function", "module", "package", "process", "session", "plain"}

\* Every fixture has a lifetime and a list of dependencies, and tests ask for
\* fixtures.
SuiteOK ==
  /\ Tier \in [Fixtures -> Tiers] /\ Deps \in [Fixtures -> Seq(Fixtures)]
  /\ \A r \in Requests : /\ r.params \in Seq(Fixtures) /\ r.arranged \in Seq(Fixtures)
                         /\ r.lazy \in Seq(Fixtures)

\* Two fixtures with one short name are not of one package and not both of the
\* process: there the cache is keyed on the short name alone.
NamesApart ==
  \A f, g \in Fixtures :
    /\ Name[f] = Name[g]
    /\ \/ Tier[f] = "package" /\ Tier[g] = "package" /\ Anchor[f] = Anchor[g]
       \/ Tier[f] \in {"process", "session"} /\ Tier[g] \in {"process", "session"}
    => f = g

-----------------------------------------------------------------------------
(* The invariant. *)

\* The pair of a fixture and a value of it.
Own(g) == g[2] \in Ids /\ values[g[2]].fx = g[1]

\* The scopes that may cache f.
CachedAt(f, scope) ==
  \/ Tier[f] = "module" /\ scope[1] = "module"
  \/ Tier[f] = "package" /\ scope = Package(Anchor[f])
  \/ Tier[f] = "process" /\ scope = Process
  \/ Tier[f] = "session" /\ scope \in {Process, Session}
  \/ Tier[f] = "function" /\ scope = Function

\* An entry holds a value under the key and in a scope of its fixture.
EntryOwn(c) ==
  /\ c.id \in Ids
  /\ CachedAt(values[c.id].fx, c.scope) /\ c.key = CacheKey(values[c.id].fx)

\* X stands for the places that occur in values and frames.
Value(X) == [fx : Fixtures, home : X, deps : SUBSET Nat, state : {"starting", "live", "failed"}]
Frame(X) ==
  [fx : Fixtures, scope : X, todo : Seq(Fixtures), got : SUBSET (Fixtures \X Nat), id : Nat,
   home : X, byHandle : BOOLEAN, ownerTier : Tiers \cup {"none"}, owner : X]

\* A fixture under construction has values of what it asked for, and its own once
\* its setup started.
FrameOwn(fr) ==
  /\ Tier[fr.fx] = "plain" \/ CachedAt(fr.fx, fr.scope)
  /\ \A g \in fr.got : Own(g)
  /\ fr.id # 0 => Own(<<fr.fx, fr.id>>)

CacheOwn == \A c \in cache : EntryOwn(c)
FramesOwn == \A n \in 1..Len(frames) : FrameOwn(frames[n])
HeldOwn == \A g \in held : Own(g)

\* The innermost fixture is what the one around it, or the test, asks for next.
Nested ==
  /\ frames # <<>> => want # <<>> /\ Head(want) = frames[1].fx
  /\ \A n \in 1..(Len(frames) - 1) :
       frames[n].todo # <<>> /\ Head(frames[n].todo) = frames[n + 1].fx

RequestOK ==
  /\ want \in Seq(Fixtures) /\ waiting \in Seq(Fixtures)
  /\ ask.arranged \in Seq(Fixtures) /\ ask.lazy \in Seq(Fixtures)

\* Between tests, and once a test is left, nothing is asked for.
Rested == stage \in {"idle", "teardown", "over"} => frames = <<>> /\ want = <<>>

OwnInv ==
  /\ \E X : values \in Seq(Value(X)) /\ frames \in Seq(Frame(X))
  /\ RequestOK /\ Nested /\ Rested
  /\ CacheOwn /\ FramesOwn /\ HeldOwn

-----------------------------------------------------------------------------
(* Facts about sequences. *)

LEMMA FrontOf ==
  ASSUME NEW S, NEW s \in Seq(S), s # <<>>
  PROVE  /\ Front(s) \in Seq(S) /\ Len(Front(s)) = Len(s) - 1
         /\ \A n \in 1..(Len(s) - 1) : Front(s)[n] = s[n]
         /\ Last(s) \in S /\ Len(s) \in Nat \ {0}
<1> DEFINE m == Len(s) - 1
<1>1. Len(s) \in Nat \ {0} /\ \A n \in 1..Len(s) : s[n] \in S
  BY EmptySeq, LenProperties, ElementOfSeq
<1>2. m \in Nat /\ Len(s) = m + 1 /\ \A n \in 1..m : s[n] \in S
  BY <1>1
<1>3. Last(s) \in S
  BY <1>1 DEF Last
<1>4. /\ Front(s) \in Seq(S) /\ Len(Front(s)) = (IF 1 <= m THEN m - 1 + 1 ELSE 0)
      /\ \A n \in 1..(m - 1 + 1) : Front(s)[n] = s[1 + n - 1]
  BY <1>2, SubSeqProperties DEF Front
<1> HIDE DEF m
<1>5. Len(Front(s)) = m /\ \A n \in 1..m : Front(s)[n] = s[n]
  <2>1. m - 1 + 1 = m /\ \A n \in 1..m : 1 + n - 1 = n
    BY <1>2
  <2> QED BY <1>2, <1>4, <2>1
<1> QED BY <1>1, <1>3, <1>4, <1>5 DEF m

LEMMA ReplaceLast ==
  ASSUME NEW S, NEW s \in Seq(S), s # <<>>, NEW x \in S
  PROVE  LET t == [s EXCEPT ![Len(s)] = x]
         IN /\ t \in Seq(S) /\ Len(t) = Len(s) /\ t # <<>>
            /\ \A n \in 1..(Len(s) - 1) : t[n] = s[n]
            /\ t[Len(s)] = x
<1>1. Len(s) \in Nat \ {0}
  BY EmptySeq
<1> QED BY <1>1

LEMMA TailOf ==
  ASSUME NEW S, NEW s \in Seq(S), s # <<>>
  PROVE  Tail(s) \in Seq(S) /\ Head(s) \in S
OBVIOUS

\* More places do no harm.
LEMMA Places ==
  ASSUME NEW X, NEW Y, X \subseteq Y
  PROVE  /\ \A s \in Seq(Value(X)) : s \in Seq(Value(Y))
         /\ \A s \in Seq(Frame(X)) : s \in Seq(Frame(Y))
<1>1. Value(X) \subseteq Value(Y) /\ Frame(X) \subseteq Frame(Y)
  BY DEF Value, Frame
<1>2. ASSUME NEW S, NEW T, S \subseteq T, NEW s \in Seq(S) PROVE s \in Seq(T)
  BY <1>2
<1> QED BY <1>1, <1>2

-----------------------------------------------------------------------------
(* The steps. *)

\* No value is replaced.
Grows == Ids \subseteq Ids' /\ \A id \in Ids : values'[id].fx = values[id].fx

LEMMA Kept ==
  ASSUME Grows
  PROVE  /\ \A g : Own(g) => Own(g)'
         /\ \A c : EntryOwn(c) => EntryOwn(c)'
         /\ \A fr : FrameOwn(fr) => FrameOwn(fr)'
<1>1. \A g : Own(g) => Own(g)'
  BY DEF Grows, Own
<1>2. \A c : EntryOwn(c) => EntryOwn(c)'
  BY DEF Grows, EntryOwn, CachedAt, CacheKey
<1>3. \A fr : FrameOwn(fr) => FrameOwn(fr)'
  BY <1>1 DEF FrameOwn, CachedAt
<1> QED BY <1>1, <1>2, <1>3

\* The value of what was asked for goes to whoever asked.
LEMMA DeliverOwn ==
  ASSUME NEW X, NEW fs \in Seq(Frame(X)), NEW f \in Fixtures, NEW id \in Nat,
         want \in Seq(Fixtures), Deliver(id, fs), Own(<<f, id>>)',
         want # <<>> /\ (fs # <<>> => Head(want) = fs[1].fx),
         \A n \in 1..(Len(fs) - 1) : fs[n].todo # <<>> /\ Head(fs[n].todo) = fs[n + 1].fx,
         fs = <<>> => f = Head(want),
         fs # <<>> => Last(fs).todo # <<>> /\ f = Head(Last(fs).todo),
         \A n \in 1..Len(fs) : FrameOwn(fs[n])',
         \A g \in held : Own(g)'
  PROVE  frames' \in Seq(Frame(X)) /\ want' \in Seq(Fixtures) /\ Nested' /\ FramesOwn' /\ HeldOwn'
<1>1. CASE fs = <<>>
  <2>1. /\ frames' = <<>> /\ want' = Tail(want)
        /\ held' = held \cup {<<f, id>>} /\ Len(frames') = 0
    BY <1>1, EmptySeq DEF Deliver
  <2>2. Tail(want) \in Seq(Fixtures)
    BY TailOf
  <2>3. frames' \in Seq(Frame(X))
    BY <2>1, EmptySeq
  <2>4. Nested' /\ FramesOwn'
    BY <2>1 DEF Nested, FramesOwn
  <2>5. HeldOwn'
    BY <2>1 DEF HeldOwn
  <2> QED BY <2>1, <2>2, <2>3, <2>4, <2>5
<1>2. CASE fs # <<>>
  <2> DEFINE top == fs[Len(fs)]
             new == [top EXCEPT !.todo = Tail(top.todo), !.got = top.got \cup {<<f, id>>}]
             fn == [fs EXCEPT ![Len(fs)] = new]
  <2>1. Len(fs) \in Nat \ {0} /\ top \in Frame(X) /\ f = Head(top.todo)
    BY <1>2, FrontOf DEF Last
  <2>2. Tail(top.todo) \in Seq(Fixtures) /\ top.got \cup {<<f, id>>} \in SUBSET (Fixtures \X Nat)
    <3>1. top.todo \in Seq(Fixtures) /\ top.todo # <<>> /\ top.got \in SUBSET (Fixtures \X Nat)
      BY <1>2, <2>1 DEF Frame, Last
    <3> QED BY <3>1, TailOf
  <2> HIDE DEF top
  <2>3. /\ new.fx = top.fx /\ new.scope = top.scope /\ new.id = top.id
        /\ new.got = top.got \cup {<<f, id>>}
    BY <2>1, <2>2 DEF Frame
  <2>4. new \in Frame(X)
    BY Zenon, <2>1, <2>2 DEF Frame
  <2>5. frames' = fn /\ UNCHANGED <<want, held>>
    BY Zenon, <1>2, <2>1 DEF Deliver, Last, top
  <2> HIDE DEF new
  <2>6. /\ fn \in Seq(Frame(X)) /\ Len(fn) = Len(fs) /\ fn # <<>>
        /\ \A n \in 1..(Len(fs) - 1) : fn[n] = fs[n]
        /\ fn[Len(fs)] = new
    BY <1>2, <2>4, ReplaceLast
  <2> HIDE DEF fn
  <2>7. \A n \in 1..Len(fs) : fn[n].fx = fs[n].fx
    BY <2>1, <2>3, <2>6 DEF top
  <2>8. Nested'
    <3>1. Head(want) = fn[1].fx
      BY <1>2, <2>1, <2>7
    <3>2. ASSUME NEW n \in 1..(Len(fs) - 1)
          PROVE  fn[n].todo # <<>> /\ Head(fn[n].todo) = fn[n + 1].fx
      <4>1. n + 1 \in 1..Len(fs)
        BY <2>1
      <4> QED BY <2>6, <2>7, <4>1
    <3> QED BY <2>5, <2>6, <3>1, <3>2 DEF Nested
  <2>9. FrameOwn(new)'
    <3>1. FrameOwn(top)'
      BY <2>1 DEF top
    <3>2. \A g \in new.got : Own(g)'
      BY Zenon, <2>3, <3>1 DEF FrameOwn
    <3>3. new.id # 0 => Own(<<new.fx, new.id>>)'
      BY <2>3, <3>1 DEF FrameOwn
    <3>4. (Tier[new.fx] = "plain" \/ CachedAt(new.fx, new.scope))'
      BY <2>3, <3>1 DEF FrameOwn
    <3> QED BY <3>2, <3>3, <3>4 DEF FrameOwn
  <2>10. FramesOwn'
    <3>1. ASSUME NEW n \in 1..Len(fs) PROVE FrameOwn(fn[n])'
      <4>1. n = Len(fs) \/ n \in 1..(Len(fs) - 1)
        BY <2>1
      <4> QED BY <2>6, <2>9, <4>1
    <3> QED BY <2>5, <2>6, <3>1 DEF FramesOwn
  <2>11. HeldOwn'
    BY <2>5 DEF HeldOwn
  <2> QED BY <2>5, <2>6, <2>8, <2>10, <2>11
<1> QED BY <1>1, <1>2

\* The scope of a fixture is one that may cache it.
LEMMA ScopeCaches ==
  ASSUME SuiteOK, NEW f \in Fixtures, NEW t, Tier[f] # "plain"
  PROVE  CachedAt(f, ScopeFor(f, t))
<1>1. Tier[f] \in Tiers
  BY DEF SuiteOK
<1> QED BY <1>1 DEF CachedAt, ScopeFor, Tiers, Module

\* A scope holds no two fixtures under one key.
LEMMA OneKey ==
  ASSUME SuiteOK, NamesApart, NEW f \in Fixtures, NEW g \in Fixtures, NEW s,
         CachedAt(f, s), CachedAt(g, s), CacheKey(f) = CacheKey(g)
  PROVE  f = g
<1>1. CASE s[1] \in {"module", "function"}
  <2>1. Tier[f] \in {"module", "function"} /\ Tier[g] \in {"module", "function"}
    BY <1>1 DEF CachedAt, Package, Process, Session
  <2> QED BY <2>1 DEF CacheKey
<1>2. CASE s[1] \notin {"module", "function"}
  <2>1. \/ Tier[f] = "package" /\ Tier[g] = "package" /\ Anchor[f] = Anchor[g]
        \/ Tier[f] \in {"process", "session"} /\ Tier[g] \in {"process", "session"}
    BY <1>2 DEF CachedAt, Package, Process, Session, Function
  <2>2. Name[f] = Name[g]
    BY <2>1 DEF CacheKey
  <2> QED BY <2>1, <2>2 DEF NamesApart
<1> QED BY <1>1, <1>2

\* What is asked for is a fixture, and the first thing its asker still wants.
LEMMA Asked ==
  ASSUME OwnInv, Todo # <<>>
  PROVE  /\ Requested \in Fixtures /\ want # <<>> /\ stage \notin {"idle", "teardown", "over"}
         /\ frames = <<>> => Requested = Head(want)
         /\ frames # <<>> => Last(frames).todo # <<>> /\ Requested = Head(Last(frames).todo)
<1>0. PICK X : values \in Seq(Value(X)) /\ frames \in Seq(Frame(X))
  BY DEF OwnInv
<1>1. stage \notin {"idle", "teardown", "over"}
  BY DEF OwnInv, Rested, Todo
<1>2. CASE frames = <<>>
  BY <1>1, <1>2, TailOf DEF OwnInv, RequestOK, Requested, Todo
<1>3. CASE frames # <<>>
  <2>1. Last(frames) \in Frame(X) /\ want # <<>>
    BY <1>0, <1>3, FrontOf DEF OwnInv, Nested
  <2>2. Last(frames).todo \in Seq(Fixtures)
    BY <2>1 DEF Frame
  <2> QED BY <1>1, <1>3, <2>1, <2>2, TailOf DEF Requested, Todo
<1> QED BY <1>2, <1>3

\* Values, frames and what was given stay as they are, and entries only leave.
LEMMA QuietOwn ==
  ASSUME OwnInv, UNCHANGED <<values, frames, held>>, cache' \subseteq cache,
         RequestOK', Nested', Rested'
  PROVE  OwnInv'
<1>1. Grows
  BY DEF Grows, Ids
<1>2. CacheOwn' /\ FramesOwn' /\ HeldOwn'
  BY <1>1, Kept DEF OwnInv, CacheOwn, FramesOwn, HeldOwn
<1> QED BY <1>2 DEF OwnInv

LEMMA InitOwn == FixtureInit => OwnInv
<1> SUFFICES ASSUME FixtureInit PROVE OwnInv
  OBVIOUS
<1>1. values \in Seq(Value({})) /\ frames \in Seq(Frame({})) /\ Len(frames) = 0
  BY EmptySeq DEF FixtureInit
<1>2. RequestOK /\ Nested /\ Rested
  BY EmptySeq DEF FixtureInit, RequestOK, Nested, Rested, NoRequest
<1>3. CacheOwn /\ FramesOwn /\ HeldOwn
  BY <1>1 DEF FixtureInit, CacheOwn, FramesOwn, HeldOwn
<1> QED BY <1>1, <1>2, <1>3 DEF OwnInv

LEMMA HitOwn ==
  ASSUME SuiteOK, NamesApart, OwnInv, Hit
  PROVE  OwnInv'
<1>0. PICK X : values \in Seq(Value(X)) /\ frames \in Seq(Frame(X))
  BY DEF OwnInv
<1>1. PICK id \in CachedIds(Requested, ScopeFor(Requested, OwnerTier)) : Deliver(id, frames)
  BY DEF Hit
<1>2. PICK c \in cache :
        c.scope = ScopeFor(Requested, OwnerTier) /\ c.key = CacheKey(Requested) /\ c.id = id
  BY <1>1 DEF CachedIds
<1>3. EntryOwn(c)
  BY DEF OwnInv, CacheOwn
<1>4. /\ Requested \in Fixtures /\ want # <<>>
      /\ frames = <<>> => Requested = Head(want)
      /\ frames # <<>> => Last(frames).todo # <<>> /\ Requested = Head(Last(frames).todo)
  BY Asked DEF Hit
<1>5. id \in Ids /\ id \in Nat /\ values[id].fx \in Fixtures
  <2>1. id \in 1..Len(values) /\ Len(values) \in Nat
    BY <1>0, <1>2, <1>3, LenProperties DEF EntryOwn, Ids
  <2>2. values[id] \in Value(X)
    BY <1>0, <2>1, ElementOfSeq
  <2> QED BY <2>1, <2>2 DEF Value, Ids
<1>6. CachedAt(Requested, c.scope)
  BY <1>2, <1>4, ScopeCaches DEF Hit
<1>7. values[id].fx = Requested
  BY Zenon, <1>2, <1>3, <1>4, <1>5, <1>6, OneKey DEF EntryOwn
<1>8. PICK f, fs : f = Requested /\ fs = frames
  OBVIOUS
<1>9. Grows
  BY DEF Hit, sessionVars, Grows, Ids
<1>10. Own(<<f, id>>)'
  <2>1. Own(<<f, id>>)
    BY <1>5, <1>7, <1>8 DEF Own
  <2> QED BY <1>9, <2>1, Kept
<1>11. Deliver(id, fs)
  BY Zenon, <1>1, <1>8 DEF Deliver
<1>12. /\ \A n \in 1..Len(fs) : FrameOwn(fs[n])'
       /\ \A g \in held : Own(g)'
  <2>1. \A n \in 1..Len(fs) : FrameOwn(fs[n])
    BY <1>8 DEF OwnInv, FramesOwn
  <2>2. \A g \in held : Own(g)
    BY DEF OwnInv, HeldOwn
  <2> QED BY <1>9, <2>1, <2>2, Kept
<1>13. /\ fs # <<>> => Head(want) = fs[1].fx
       /\ \A n \in 1..(Len(fs) - 1) : fs[n].todo # <<>> /\ Head(fs[n].todo) = fs[n + 1].fx
  BY <1>8 DEF OwnInv, Nested
<1>14. want \in Seq(Fixtures) /\ fs \in Seq(Frame(X)) /\ f \in Fixtures
  BY <1>0, <1>4, <1>8 DEF OwnInv, RequestOK
<1>15. /\ frames' \in Seq(Frame(X)) /\ want' \in Seq(Fixtures)
       /\ Nested' /\ FramesOwn' /\ HeldOwn'
  BY <1>4, <1>5, <1>8, <1>10, <1>11, <1>12, <1>13, <1>14, DeliverOwn
<1>16. RequestOK' /\ Rested'
  BY <1>15, Asked DEF OwnInv, RequestOK, Rested, Hit
<1>17. CacheOwn'
  BY <1>9, Kept DEF OwnInv, CacheOwn, Hit, sessionVars
<1> QED BY <1>0, <1>15, <1>16, <1>17 DEF OwnInv, Hit, sessionVars

\* One more frame, for what the innermost one asks.
LEMMA EnterOwn ==
  ASSUME SuiteOK, OwnInv, Enter
  PROVE  OwnInv'
<1>0. PICK X : values \in Seq(Value(X)) /\ frames \in Seq(Frame(X))
  BY DEF OwnInv
<1>1. /\ Requested \in Fixtures /\ want # <<>>
      /\ frames = <<>> => Requested = Head(want)
      /\ frames # <<>> => Last(frames).todo # <<>> /\ Requested = Head(Last(frames).todo)
  BY Asked DEF Enter
<1>2. PICK f, s, fr : f = Requested /\ s = ScopeFor(f, OwnerTier) /\ fr = FrameOf(f, s)
  OBVIOUS
<1>3. frames' = Append(frames, fr) /\ UNCHANGED <<values, cache, want, waiting, ask, held>>
  BY <1>2 DEF Enter
<1> DEFINE Y == X \cup {fr.scope, fr.home, fr.owner}
<1>4. /\ fr.fx = f /\ fr.scope = s /\ fr.got = {} /\ fr.id = 0
      /\ fr \in Frame(Y)
  <2>1. Deps[f] \in Seq(Fixtures) /\ Tier[f] \in Tiers
    BY <1>1, <1>2 DEF SuiteOK
  <2>2. ByHandle(f) \in BOOLEAN
    BY DEF ByHandle
  <2> QED BY <1>1, <1>2, <2>1, <2>2 DEF FrameOf, Frame
<1>5. values \in Seq(Value(Y)) /\ frames \in Seq(Frame(Y))
  BY Zenon, <1>0, Places
<1> HIDE DEF Y
<1>6. /\ frames' \in Seq(Frame(Y)) /\ frames' # <<>> /\ Len(frames') = Len(frames) + 1
      /\ \A n \in 1..Len(frames) : frames'[n] = frames[n]
      /\ frames'[Len(frames) + 1] = fr /\ Len(frames) \in Nat
  BY <1>3, <1>4, <1>5, AppendProperties, LenProperties
<1>7. Grows
  BY <1>3 DEF Grows, Ids
<1>8. CacheOwn' /\ HeldOwn'
  BY <1>3, <1>7, Kept DEF OwnInv, CacheOwn, HeldOwn
<1>9. FrameOwn(fr)'
  <2>1. Tier[f] = "plain" \/ CachedAt(f, s)
    BY <1>1, <1>2, ScopeCaches
  <2> QED BY <1>4, <2>1 DEF FrameOwn, CachedAt
<1>10. FramesOwn'
  <2> SUFFICES ASSUME NEW n \in 1..(Len(frames) + 1), NEW it, it = frames'[n] PROVE FrameOwn(it)'
    BY <1>6 DEF FramesOwn
  <2>1. n = Len(frames) + 1 \/ n \in 1..Len(frames)
    BY <1>6
  <2>2. CASE n = Len(frames) + 1
    BY <1>6, <1>9, <2>2
  <2>3. CASE n \in 1..Len(frames)
    <3>1. FrameOwn(it)
      BY <1>6, <2>3 DEF OwnInv, FramesOwn
    <3> QED BY <1>7, <3>1, Kept
  <2> QED BY <2>1, <2>2, <2>3
<1>11. Nested'
  <2>1. Head(want) = frames'[1].fx
    <3>1. CASE frames = <<>>
      <4>1. Len(frames) = 0
        BY <3>1
      <4> QED BY <1>1, <1>2, <1>4, <1>6, <3>1, <4>1
    <3>2. CASE frames # <<>>
      <4>1. 1 \in 1..Len(frames)
        BY <1>5, <3>2, FrontOf
      <4> QED BY <1>6, <3>2, <4>1 DEF OwnInv, Nested
    <3> QED BY <3>1, <3>2
  <2>2. ASSUME NEW n \in 1..Len(frames)
        PROVE  frames'[n].todo # <<>> /\ Head(frames'[n].todo) = frames'[n + 1].fx
    <3>1. CASE n = Len(frames)
      <4>1. frames # <<>>
        BY <2>2
      <4> QED BY <1>1, <1>2, <1>4, <1>6, <2>2, <3>1, <4>1 DEF Last
    <3>2. CASE n # Len(frames)
      <4>1. n \in 1..(Len(frames) - 1) /\ n + 1 \in 1..Len(frames)
        BY <1>6, <3>2
      <4> QED BY <1>6, <4>1 DEF OwnInv, Nested
    <3> QED BY <3>1, <3>2
  <2> QED BY <1>1, <1>3, <1>6, <2>1, <2>2 DEF Nested
<1>12. RequestOK' /\ Rested'
  BY <1>3, Asked DEF OwnInv, RequestOK, Rested, Enter
<1> QED BY <1>3, <1>5, <1>6, <1>8, <1>10, <1>11, <1>12 DEF OwnInv

\* The setup of the innermost fixture starts: its value is a value of it.
LEMMA StartOwn ==
  ASSUME SuiteOK, OwnInv, Start
  PROVE  OwnInv'
<1>0. PICK X : values \in Seq(Value(X)) /\ frames \in Seq(Frame(X))
  BY DEF OwnInv
<1>1. PICK fr, id, v, fs :
        /\ fr = Last(frames) /\ id = Len(values) + 1 /\ fs = frames
        /\ v = [fx |-> fr.fx, home |-> fr.home, deps |-> {g[2] : g \in fr.got},
                state |-> IF Tier[fr.fx] \in {"plain", "session"} THEN "live" ELSE "starting"]
  BY Zenon
<1>2. /\ values' = Append(values, v) /\ frames' = [fs EXCEPT ![Len(fs)].id = id]
      /\ UNCHANGED <<cache, want, waiting, ask, held>> /\ fs # <<>>
  BY <1>1 DEF Start
<1>3. /\ fs \in Seq(Frame(X)) /\ Len(fs) \in Nat \ {0} /\ fr \in Frame(X) /\ fr = fs[Len(fs)]
      /\ fr.got \in SUBSET (Fixtures \X Nat)
  <2>1. fs \in Seq(Frame(X)) /\ Len(fs) \in Nat \ {0} /\ fr \in Frame(X) /\ fr = fs[Len(fs)]
    BY <1>0, <1>1, <1>2, FrontOf DEF Last
  <2> QED BY <2>1 DEF Frame
<1>4. v \in Value(X) /\ v.fx = fr.fx
  <2>1. {g[2] : g \in fr.got} \subseteq Nat
    BY <1>3
  <2> QED BY <1>1, <1>3, <2>1 DEF Frame, Value
<1>5. /\ values' \in Seq(Value(X)) /\ Len(values') = Len(values) + 1 /\ Len(values) \in Nat
      /\ \A n \in 1..Len(values) : values'[n] = values[n]
      /\ values'[Len(values) + 1] = v
  BY <1>0, <1>2, <1>4, AppendProperties, LenProperties
<1>6. Grows
  BY <1>5 DEF Grows, Ids
<1>7. id \in Nat \ {0} /\ Own(<<fr.fx, id>>)'
  BY <1>1, <1>4, <1>5 DEF Own, Ids
<1> DEFINE new == [fr EXCEPT !.id = id]
<1>8. /\ new \in Frame(X) /\ new.fx = fr.fx /\ new.scope = fr.scope /\ new.got = fr.got
      /\ new.todo = fr.todo /\ new.id = id
  BY Zenon, <1>3, <1>7 DEF Frame
<1>9. frames' = [fs EXCEPT ![Len(fs)] = new]
  BY <1>2, <1>3
<1> HIDE DEF new
<1>10. /\ frames' \in Seq(Frame(X)) /\ Len(frames') = Len(fs)
       /\ \A n \in 1..(Len(fs) - 1) : frames'[n] = fs[n]
       /\ frames'[Len(fs)] = new /\ frames' # <<>>
  BY <1>2, <1>3, <1>8, <1>9, ReplaceLast
<1>11. FrameOwn(new)'
  <2>1. FrameOwn(fr)
    BY <1>1, <1>3 DEF OwnInv, FramesOwn
  <2>2. FrameOwn(fr)'
    BY <1>6, <2>1, Kept
  <2> QED BY <1>7, <1>8, <2>2 DEF FrameOwn, CachedAt
<1>12. FramesOwn'
  <2> SUFFICES ASSUME NEW n \in 1..Len(fs), NEW it, it = frames'[n] PROVE FrameOwn(it)'
    BY <1>10 DEF FramesOwn
  <2>1. n = Len(fs) \/ n \in 1..(Len(fs) - 1)
    BY <1>3
  <2>2. CASE n = Len(fs)
    BY <1>10, <1>11, <2>2
  <2>3. CASE n \in 1..(Len(fs) - 1)
    <3>1. FrameOwn(it)
      BY <1>1, <1>10, <2>3 DEF OwnInv, FramesOwn
    <3> QED BY <1>6, <3>1, Kept
  <2> QED BY <2>1, <2>2, <2>3
<1>13. Nested'
  <2>1. \A n \in 1..Len(fs) : frames'[n].fx = fs[n].fx /\ frames'[n].todo = fs[n].todo
    BY <1>3, <1>8, <1>10
  <2>2. \A n \in 1..(Len(fs) - 1) : n \in 1..Len(fs) /\ n + 1 \in 1..Len(fs)
    BY <1>3
  <2>3. \A n \in 1..(Len(fs) - 1) : fs[n].todo # <<>> /\ Head(fs[n].todo) = fs[n + 1].fx
    BY <1>1 DEF OwnInv, Nested
  <2>4. want # <<>> /\ Head(want) = frames'[1].fx
    BY <1>1, <1>2, <1>3, <2>1 DEF OwnInv, Nested
  <2> QED BY <1>2, <1>10, <2>1, <2>2, <2>3, <2>4 DEF Nested
<1>14. CacheOwn' /\ HeldOwn'
  BY <1>2, <1>6, Kept DEF OwnInv, CacheOwn, HeldOwn
<1>15. RequestOK' /\ Rested'
  BY <1>1, <1>2 DEF OwnInv, RequestOK, Rested, Start
<1> QED BY <1>5, <1>10, <1>12, <1>13, <1>14, <1>15 DEF OwnInv

\* A value changes its state and keeps its fixture.
LEMMA StateChanges ==
  ASSUME NEW X, values \in Seq(Value(X)), NEW id \in Ids,
         NEW st \in {"starting", "live", "failed"}, values' = [values EXCEPT ![id].state = st]
  PROVE  values' \in Seq(Value(X)) /\ Grows
<1>1. Len(values) \in Nat /\ \A n \in 1..Len(values) : values[n] \in Value(X)
  BY LenProperties, ElementOfSeq
<1>2. [values[id] EXCEPT !.state = st] \in Value(X)
      /\ [values[id] EXCEPT !.state = st].fx = values[id].fx
  BY <1>1 DEF Ids, Value
<1>3. values' = [values EXCEPT ![id] = [values[id] EXCEPT !.state = st]]
  OBVIOUS
<1>4. values' \in Seq(Value(X)) /\ Len(values') = Len(values)
  BY <1>1, <1>2, <1>3 DEF Ids
<1>5. \A n \in Ids : values'[n].fx = values[n].fx
  BY <1>1, <1>2, <1>3 DEF Ids
<1> QED BY <1>4, <1>5 DEF Grows, Ids

\* The innermost setup reached its yield: its value is cached under the key of
\* its fixture and goes to whoever asked.
LEMMA AdvanceOwn ==
  ASSUME SuiteOK, OwnInv, Advance
  PROVE  OwnInv'
<1>0. PICK X : values \in Seq(Value(X)) /\ frames \in Seq(Frame(X))
  BY DEF OwnInv
<1>1. PICK fr, f, id, fs : fr = Last(frames) /\ f = fr.fx /\ id = fr.id /\ fs = Front(frames)
  OBVIOUS
<1>2. /\ frames # <<>> /\ id # 0
      /\ values' = [values EXCEPT ![id].state = "live"]
      /\ cache' = IF Tier[f] = "plain" THEN cache
                  ELSE cache \cup {[scope |-> fr.scope, key |-> CacheKey(f), id |-> id]}
      /\ Deliver(id, fs) /\ UNCHANGED <<ask, waiting>>
  BY Zenon, <1>1 DEF Advance, Deliver
<1>3. /\ fs \in Seq(Frame(X)) /\ Len(fs) = Len(frames) - 1 /\ Len(frames) \in Nat \ {0}
      /\ \A n \in 1..Len(fs) : fs[n] = frames[n]
      /\ fr = frames[Len(frames)] /\ fr \in Frame(X)
  BY <1>0, <1>1, <1>2, FrontOf DEF Last
<1>4. FrameOwn(fr) /\ f \in Fixtures
  <2>1. FrameOwn(fr)
    BY <1>1, <1>3 DEF OwnInv, FramesOwn
  <2> QED BY <1>1, <1>3, <2>1 DEF Frame
<1>5. Own(<<f, id>>) /\ id \in Ids /\ id \in Nat
  <2>1. Own(<<f, id>>)
    BY <1>1, <1>2, <1>4 DEF FrameOwn
  <2> QED BY <2>1 DEF Own, Ids
<1>6. values' \in Seq(Value(X)) /\ Grows
  BY Zenon, <1>0, <1>2, <1>5, StateChanges
<1>7. Own(<<f, id>>)'
  BY <1>5, <1>6, Kept
<1>8. CacheOwn'
  <2> SUFFICES ASSUME NEW c, c \in cache' PROVE EntryOwn(c)'
    BY DEF CacheOwn
  <2>1. CASE c \in cache
    BY <1>6, <2>1, Kept DEF OwnInv, CacheOwn
  <2>2. CASE c \notin cache
    <3>1. c = [scope |-> fr.scope, key |-> CacheKey(f), id |-> id] /\ Tier[f] # "plain"
      BY <1>2, <2>2
    <3>2. CachedAt(f, fr.scope)
      BY <1>1, <1>4, <3>1 DEF FrameOwn
    <3>3. EntryOwn(c)
      BY <1>5, <3>1, <3>2 DEF EntryOwn, Own
    <3> QED BY <1>6, <3>3, Kept
  <2> QED BY <2>1, <2>2
<1>9. /\ \A n \in 1..Len(fs) : FrameOwn(fs[n])'
      /\ \A g \in held : Own(g)'
  <2>1. \A n \in 1..Len(fs) : FrameOwn(fs[n])
    BY <1>3 DEF OwnInv, FramesOwn
  <2>2. \A g \in held : Own(g)
    BY DEF OwnInv, HeldOwn
  <2> QED BY <1>6, <2>1, <2>2, Kept
<1>10. /\ want \in Seq(Fixtures) /\ want # <<>> /\ Head(want) = frames[1].fx
       /\ \A n \in 1..(Len(frames) - 1) :
            frames[n].todo # <<>> /\ Head(frames[n].todo) = frames[n + 1].fx
  BY <1>2 DEF OwnInv, RequestOK, Nested
<1>11. /\ fs # <<>> => Head(want) = fs[1].fx
       /\ \A n \in 1..(Len(fs) - 1) : fs[n].todo # <<>> /\ Head(fs[n].todo) = fs[n + 1].fx
  <2>1. fs # <<>> => 1 \in 1..Len(fs)
    BY <1>3, EmptySeq
  <2>2. \A n \in 1..(Len(fs) - 1) :
          n \in 1..Len(fs) /\ n + 1 \in 1..Len(fs) /\ n \in 1..(Len(frames) - 1)
    BY <1>3
  <2> QED BY <1>3, <1>10, <2>1, <2>2
<1>12. fs = <<>> => f = Head(want)
  <2> SUFFICES ASSUME fs = <<>> PROVE f = Head(want)
    OBVIOUS
  <2>1. Len(frames) = 1
    BY <1>3, EmptySeq
  <2> QED BY <1>1, <1>3, <1>10, <2>1
<1>13. fs # <<>> => Last(fs).todo # <<>> /\ f = Head(Last(fs).todo)
  <2> SUFFICES ASSUME fs # <<>> PROVE Last(fs).todo # <<>> /\ f = Head(Last(fs).todo)
    OBVIOUS
  <2>1. Len(fs) \in 1..Len(fs) /\ Len(fs) \in 1..(Len(frames) - 1) /\ Len(fs) + 1 = Len(frames)
    BY <1>3, FrontOf
  <2> QED BY <1>1, <1>3, <1>10, <2>1 DEF Last
<1>14. /\ frames' \in Seq(Frame(X)) /\ want' \in Seq(Fixtures)
       /\ Nested' /\ FramesOwn' /\ HeldOwn'
  BY <1>2, <1>3, <1>4, <1>5, <1>7, <1>9, <1>10, <1>11, <1>12, <1>13, DeliverOwn
<1>15. RequestOK' /\ Rested'
  BY <1>2, <1>14 DEF OwnInv, RequestOK, Rested, Advance
<1> QED BY <1>6, <1>8, <1>14, <1>15 DEF OwnInv

\* A test that is abandoned drops its frames and what it was given.
LEMMA AbandonOwn ==
  ASSUME OwnInv, SetupFails \/ Interrupt
  PROVE  OwnInv'
<1>0. PICK X : values \in Seq(Value(X)) /\ frames \in Seq(Frame(X))
  BY DEF OwnInv
<1>1. frames' = <<>> /\ want' = <<>> /\ held' = {} /\ UNCHANGED <<cache, ask, waiting>>
  BY DEF SetupFails, Interrupt, Abandon
<1>2. values' \in Seq(Value(X)) /\ Grows
  <2>1. CASE Interrupt
    BY <1>0, <2>1 DEF Interrupt, Grows, Ids
  <2>2. CASE SetupFails
    <3>1. PICK fr, id : fr = Last(frames) /\ id = fr.id
      OBVIOUS
    <3>2. frames # <<>> /\ id # 0 /\ values' = [values EXCEPT ![id].state = "failed"]
      BY <2>2, <3>1 DEF SetupFails
    <3>3. FrameOwn(fr)
      BY <1>0, <3>1, <3>2, FrontOf DEF OwnInv, FramesOwn, Last
    <3>4. id \in Ids
      BY <3>1, <3>2, <3>3 DEF FrameOwn, Own
    <3> QED BY Zenon, <1>0, <3>2, <3>4, StateChanges
  <2> QED BY <2>1, <2>2
<1>3. frames' \in Seq(Frame(X)) /\ want' \in Seq(Fixtures) /\ Len(frames') = 0
  BY <1>1, EmptySeq
<1>4. RequestOK' /\ Nested' /\ Rested' /\ FramesOwn' /\ HeldOwn'
  BY <1>1, <1>3 DEF OwnInv, RequestOK, Nested, Rested, FramesOwn, HeldOwn
<1>5. CacheOwn'
  BY <1>1, <1>2, Kept DEF OwnInv, CacheOwn
<1> QED BY <1>2, <1>3, <1>4, <1>5 DEF OwnInv

\* The steps of a test that build nothing.
LEMMA StageOwn ==
  ASSUME OwnInv,
         \/ Defer \/ SkippedByMark \/ Arrange \/ EnterLoop \/ EnterBody \/ BodyEnds \/ Teardown
  PROVE  OwnInv'
<1>1. /\ want \in Seq(Fixtures) /\ waiting \in Seq(Fixtures) /\ <<>> \in Seq(Fixtures)
      /\ ask.arranged \in Seq(Fixtures) /\ ask.lazy \in Seq(Fixtures)
  BY EmptySeq DEF OwnInv, RequestOK
<1>2. CASE Teardown
  <2>1. cache' \subseteq cache /\ held' = {} /\ UNCHANGED <<values, frames, want, waiting, ask>>
    BY <1>2 DEF Teardown, Drain
  <2>2. frames = <<>> /\ want = <<>>
    BY <1>2 DEF Teardown, OwnInv, Rested
  <2>3. RequestOK' /\ Nested' /\ Rested'
    BY <1>1, <2>1, <2>2 DEF RequestOK, Nested, Rested, OwnInv
  <2>4. Grows
    BY <2>1 DEF Grows, Ids
  <2>5. CacheOwn' /\ FramesOwn' /\ HeldOwn'
    BY <2>1, <2>4, Kept DEF OwnInv, CacheOwn, FramesOwn, HeldOwn
  <2> QED BY <2>1, <2>3, <2>5 DEF OwnInv
<1>3. CASE Defer
  <2>1. /\ want' = Tail(want) /\ waiting' = Append(waiting, Requested) /\ frames = <<>>
        /\ UNCHANGED <<values, cache, frames, held, ask, stage>>
        /\ Requested = Head(want) /\ want # <<>>
    BY <1>3 DEF Defer, Deferred, sessionVars, Requested, Todo
  <2>2. Tail(want) \in Seq(Fixtures) /\ Requested \in Fixtures
    BY <1>1, <2>1, TailOf
  <2>3. RequestOK'
    BY <1>1, <2>1, <2>2, AppendProperties DEF RequestOK
  <2>4. Nested' /\ Rested'
    BY <2>1 DEF Nested, Rested, OwnInv
  <2> QED BY <2>1, <2>3, <2>4, QuietOwn
<1>4. CASE SkippedByMark \/ Arrange \/ EnterLoop \/ EnterBody \/ BodyEnds
  <2>1. /\ UNCHANGED <<values, cache, frames, held, ask, waiting>> /\ frames = <<>>
        /\ want' \in {want, ask.arranged, waiting, ask.lazy, <<>>}
        /\ stage' \in {"arrange", "await", "body"} \/ want' = <<>>
    BY <1>4 DEF SkippedByMark, Arrange, EnterLoop, EnterBody, BodyEnds, StageDone, sessionVars
  <2>2. Len(frames') = 0 /\ frames' = <<>>
    BY <2>1, EmptySeq
  <2>3. RequestOK'
    BY Zenon, <1>1, <2>1 DEF RequestOK
  <2>4. Nested' /\ Rested'
    BY <2>1, <2>2 DEF Nested, Rested
  <2> QED BY <2>1, <2>3, <2>4, QuietOwn
<1> QED BY <1>2, <1>3, <1>4

\* A test begins with nothing.
LEMMA BeginOwn ==
  ASSUME SuiteOK, OwnInv, NEW m, NEW r \in Requests, Begin(m, r)
  PROVE  OwnInv'
<1>1. /\ stage = "idle" /\ stage' = "resolve" /\ ask' = r /\ want' = r.params /\ waiting' = <<>>
      /\ held' = {} /\ cache' \subseteq cache /\ UNCHANGED <<values, frames>>
  BY DEF Begin
<1>2. frames = <<>>
  BY <1>1 DEF OwnInv, Rested
<1>3. RequestOK' /\ Nested' /\ Rested'
  BY <1>1, <1>2, EmptySeq DEF SuiteOK, RequestOK, Nested, Rested
<1>4. Grows
  BY <1>1 DEF Grows, Ids
<1>5. CacheOwn' /\ FramesOwn' /\ HeldOwn'
  BY <1>1, <1>4, Kept DEF OwnInv, CacheOwn, FramesOwn, HeldOwn
<1> QED BY <1>1, <1>3, <1>5 DEF OwnInv

\* The steps of a test, and Ctrl-C.
LEMMA TestOwn ==
  ASSUME SuiteOK, NamesApart, OwnInv, TestStep \/ Interrupt
  PROVE  OwnInv'
BY HitOwn, EnterOwn, StartOwn, AdvanceOwn, AbandonOwn, StageOwn DEF TestStep

\* Between two tests a driver moves on, or fires a boundary, which drops entries.
LEMMA BetweenOwn ==
  ASSUME OwnInv, UNCHANGED <<values, frames, want, waiting, ask, held>>, cache' \subseteq cache,
         stage' = stage \/ stage \in {"idle", "teardown", "over"}
  PROVE  OwnInv'
<1>1. RequestOK' /\ Nested' /\ Rested'
  BY DEF OwnInv, RequestOK, Nested, Rested
<1> QED BY <1>1, QuietOwn

\* A boundary drops entries and touches no test.
LEMMA BoundaryOwn ==
  ASSUME OwnInv, \/ EndTask \/ EndProcess
                 \/ \E m : EndModule(m)
                 \/ \E dir : EndPackage(dir)
  PROVE  OwnInv'
<1>1. UNCHANGED <<values, testVars>> /\ cache' \subseteq cache
  BY Zenon DEF EndTask, EndProcess, EndModule, EndPackage, Drain
<1> QED BY <1>1, BetweenOwn DEF testVars

\* The invariant says what the tests and the fixtures were given.
LEMMA OwnGiven == OwnInv => OwnInstance
<1> SUFFICES ASSUME OwnInv, NEW g \in Given PROVE values[g[2]].fx = g[1]
  BY DEF OwnInstance
<1>0. PICK X : frames \in Seq(Frame(X))
  BY DEF OwnInv
<1>1. CASE g \in held
  BY <1>1 DEF OwnInv, HeldOwn, Own
<1>2. CASE g \notin held
  <2>1. PICK n \in DOMAIN frames : g \in frames[n].got
    BY <1>2 DEF Given
  <2>2. n \in 1..Len(frames)
    BY <1>0, LenProperties
  <2> QED BY <2>1, <2>2 DEF OwnInv, FramesOwn, FrameOwn, Own
<1> QED BY <1>1, <1>2
=============================================================================
