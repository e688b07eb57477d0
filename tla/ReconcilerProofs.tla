-------------------------- MODULE ReconcilerProofs --------------------------
(***************************************************************************)
(* Proofs about Reconciler, for any set of managers and any values of the  *)
(* other constants that satisfy its assumptions.                           *)
(***************************************************************************)
EXTENDS Reconciler, TLAPS

USE DayAssumption, PollAssumption, ResyncAssumption, BoundAssumption, SecretsAssumption

-----------------------------------------------------------------------------
(* Writes to the store.                                                    *)

\* A step stores nothing, or one new version.
Stored ==
  \/ UNCHANGED store
  \/ ssw' \in Ssws /\ ssw'.rv = ssw.rv + 1 /\ Publish(ssw')

Grows == ssw' = ssw \/ (ssw' \in Ssws /\ ssw'.rv = ssw.rv + 1)

\* The stored claim is the old one, none, or made now, a day after the old.
Claimed ==
  /\ ssw'.last \in {ssw.last, Epoch, now}
  /\ ssw.exists /\ ssw'.exists /\ ssw'.last # ssw.last
       => ssw'.last >= ssw.last + Day

\* ApiWrite stores at most one version, one higher (Update of the API server).
LEMMA WriteStored ==
  ASSUME ssw \in Ssws, NEW o \in Ssws, o.rv = ssw.rv, ApiWrite(o)
  PROVE  /\ Stored
         /\ ssw' = ssw \/ ssw' = Bump(o)
         /\ ssw'.last = o.last /\ ssw'.exists = o.exists
         /\ o # ssw => ssw' = Bump(o)
  BY DEF ApiWrite, Stored, Publish, Bump, Ssws, store

\* What the two kinds of write make of the stored ssw is a ssw.
LEMMA UpdatesTyped ==
  ASSUME ssw \in Ssws, NEW copy \in Ssws
  PROVE  /\ UpdateMain(copy) \in Ssws /\ UpdateMain(copy).rv = ssw.rv
         /\ UpdateStatus(copy) \in Ssws /\ UpdateStatus(copy).rv = ssw.rv
         /\ UpdateStatus(copy).last = ssw.last
         /\ UpdateMain(copy).exists => UpdateMain(copy).last = copy.last
<1>1. NoSsw(ssw.rv) \in Ssws /\ NoSsw(ssw.rv).rv = ssw.rv /\ ~NoSsw(ssw.rv).exists
  <2>1. Epoch \in Int
    BY DEF Epoch
  <2>. QED  BY <2>1 DEF NoSsw, Ssws
<1>2. /\ [ssw EXCEPT !.fin = copy.fin, !.last = copy.last] \in Ssws
      /\ [ssw EXCEPT !.fin = copy.fin, !.last = copy.last].rv = ssw.rv
      /\ [ssw EXCEPT !.fin = copy.fin, !.last = copy.last].last = copy.last
  BY DEF Ssws
<1>3. /\ UpdateStatus(copy) \in Ssws /\ UpdateStatus(copy).rv = ssw.rv
      /\ UpdateStatus(copy).last = ssw.last
  BY DEF Ssws, UpdateStatus
<1>. QED  BY <1>1, <1>2, <1>3 DEF UpdateMain


\* A write ends in one of the two ways, whatever the caller sees.
LEMMA WriteOutcome ==
  ASSUME TypeOK, NEW copy \in Ssws, NEW o \in Ssws, o.rv = ssw.rv,
         Succeeds(copy, o) \/ Fails(copy, o)
  PROVE  /\ Stored /\ budget' \in 0..Budget
         /\ ssw' = ssw \/ (Accepts(copy) /\ ssw' = Bump(o))
         /\ Succeeds(copy, o) => Accepts(copy) /\ ssw'.last = o.last /\ ssw' \in Ssws
<1>1. budget' \in 0..Budget
  BY DEF TypeOK, Succeeds, Fails, Disturb
<1>2. ssw \in Ssws
  BY DEF TypeOK
<1>3. ApiWrite(o) => /\ Stored
                     /\ ssw' = ssw \/ ssw' = Bump(o)
                     /\ ssw'.last = o.last
  BY <1>2, WriteStored
<1>4. UNCHANGED store => Stored /\ ssw' = ssw
  BY DEF Stored, store
<1>5. Stored => ssw' \in Ssws
  BY <1>2 DEF Stored, store
<1>6. CASE Succeeds(copy, o)
  <2>1. Accepts(copy) /\ ApiWrite(o)
    BY <1>6 DEF Succeeds
  <2>. QED  BY <1>1, <1>3, <1>5, <1>6, <2>1
<1>7. CASE Fails(copy, o) /\ ~Succeeds(copy, o)
  <2>1. UNCHANGED store \/ (Accepts(copy) /\ ApiWrite(o))
    BY <1>7 DEF Fails, store
  <2>. QED  BY <1>1, <1>3, <1>4, <1>7, <2>1
<1>. QED  BY <1>6, <1>7

\* Status writes keep the claim (updateStatusCondition, lines 288 to 316, and
\* the report, lines 671 to 689).
LEMMA StatusOutcome ==
  ASSUME TypeOK, NEW copy \in Ssws, NEW from \in Ssws,
         Succeeds(copy, UpdateStatus(from)) \/ Fails(copy, UpdateStatus(from))
  PROVE  Stored /\ Claimed /\ budget' \in 0..Budget
<1>1. ssw \in Ssws
  BY DEF TypeOK
<1>2. /\ UpdateStatus(from) \in Ssws /\ UpdateStatus(from).rv = ssw.rv
      /\ UpdateStatus(from).last = ssw.last
  BY <1>1, UpdatesTyped
<1>3. /\ Stored /\ budget' \in 0..Budget
      /\ ssw' = ssw \/ ssw' = Bump(UpdateStatus(from))
  BY <1>2, WriteOutcome
<1>4. ssw'.last = ssw.last
  BY <1>2, <1>3 DEF Bump, Ssws
<1>. QED  BY <1>3, <1>4 DEF Claimed

\* So do finalizer writes, made from a known copy (lines 203 to 219 and 236 to
\* 245); one that removes the ssw leaves no claim.
LEMMA FinalizerOutcome ==
  ASSUME TypeOK, NEW copy \in Ssws, Known(copy, ssw), NEW fin \in BOOLEAN,
         LET o == UpdateMain([copy EXCEPT !.fin = fin])
         IN Succeeds(copy, o) \/ Fails(copy, o)
  PROVE  Stored /\ Claimed /\ budget' \in 0..Budget
<1>. DEFINE from == [copy EXCEPT !.fin = fin]
            o == UpdateMain(from)
<1>1. ssw \in Ssws
  BY DEF TypeOK
<1>2. from \in Ssws /\ from.last = copy.last
  BY DEF Ssws
<1>3. /\ o \in Ssws /\ o.rv = ssw.rv
      /\ o.exists => o.last = copy.last
      /\ ~o.exists => o.last = Epoch \/ o.last = copy.last
  <2>1. o \in Ssws /\ o.rv = ssw.rv /\ (o.exists => o.last = from.last)
    BY <1>1, <1>2, UpdatesTyped
  <2>2. o.last = Epoch \/ o.last = from.last
    BY <1>1, <1>2 DEF UpdateMain, NoSsw, Ssws
  <2>. QED  BY <1>2, <2>1, <2>2
<1>4. /\ Stored /\ budget' \in 0..Budget
      /\ ssw' = ssw \/ (Accepts(copy) /\ ssw' = Bump(o))
  <2>. HIDE DEF o
  <2>. QED  BY <1>3, WriteOutcome DEF o
<1>5. Accepts(copy) => copy.last = ssw.last
  BY DEF Accepts, Known
<1>6. ssw' = Bump(o) => ssw'.last = o.last /\ ssw'.exists = o.exists
  <2>. HIDE DEF o
  <2>. QED  BY <1>3 DEF Bump, Ssws
<1>. HIDE DEF o
<1>. QED  BY <1>3, <1>4, <1>5, <1>6 DEF Claimed

\* A due claim is made from a known copy, so it is a day after the last one,
\* and it is always a version of its own (lines 635 to 642 and 716 to 730).
LEMMA ClaimOutcome ==
  ASSUME TypeOK, NEW copy \in Ssws, Known(copy, ssw), DueForCheck(copy),
         NEW o, o = UpdateMain([copy EXCEPT !.last = ClaimStamp]),
         Succeeds(copy, o) \/ Fails(copy, o)
  PROVE  /\ Stored /\ Claimed /\ budget' \in 0..Budget
         /\ Succeeds(copy, o) => ssw' \in Ssws /\ ssw'.rv = ssw.rv + 1
<1>. DEFINE from == [copy EXCEPT !.last = now]
<1>1. ssw \in Ssws /\ now \in Nat /\ Day \in Nat \ {0}
  BY DayAssumption DEF TypeOK
<1>2. from \in Ssws /\ from.last = now /\ o = UpdateMain(from)
  BY <1>1 DEF Ssws, ClaimStamp
<1>. HIDE DEF from
<1>3. /\ o \in Ssws /\ o.rv = ssw.rv
      /\ o.exists => o.last = now
      /\ o.last = Epoch \/ o.last = now
  <2>1. o \in Ssws /\ o.rv = ssw.rv /\ (o.exists => o.last = from.last)
    BY <1>1, <1>2, UpdatesTyped
  <2>2. CASE ssw.deleting /\ ~from.fin
    <3>1. o = NoSsw(ssw.rv)
      BY <1>2, <2>2 DEF UpdateMain
    <3>2. o.last = Epoch /\ o.exists = FALSE
      BY <3>1 DEF NoSsw
    <3>. QED  BY <2>1, <3>2
  <2>3. CASE ~(ssw.deleting /\ ~from.fin)
    <3>1. o = [ssw EXCEPT !.fin = from.fin, !.last = from.last]
      BY <1>2, <2>3 DEF UpdateMain
    <3>. QED  BY <1>1, <1>2, <2>1, <3>1 DEF Ssws
  <2>. QED  BY <2>2, <2>3
<1>4. /\ Stored /\ budget' \in 0..Budget
      /\ ssw' = ssw \/ (Accepts(copy) /\ ssw' = Bump(o))
      /\ Succeeds(copy, o) => Accepts(copy) /\ ssw' \in Ssws
  BY <1>3, WriteOutcome
<1>5. Accepts(copy) => /\ ssw.exists /\ copy.last = ssw.last
                       /\ now >= ssw.last + Day
  BY <1>1 DEF Accepts, Known, DueForCheck, Ssws
<1>6. ssw' = Bump(o) => /\ ssw'.last = o.last /\ ssw'.exists = o.exists
                        /\ ssw'.rv = ssw.rv + 1
  BY <1>1, <1>3 DEF Bump, Ssws
<1>7. Claimed
  BY <1>3, <1>4, <1>5, <1>6 DEF Claimed
<1>8. ASSUME Succeeds(copy, o) PROVE ssw' = Bump(o)
  <2>1. ApiWrite(o)
    BY <1>8 DEF Succeeds
  <2>2. o # ssw
    <3>1. Accepts(copy)
      BY <1>4, <1>8
    <3>2. now # ssw.last
      BY <1>1, <1>5, <3>1 DEF Ssws
    <3>. QED  BY <1>3, <1>5, <3>1, <3>2
  <2>. QED  BY <1>1, <1>3, <2>1, <2>2, WriteStored
<1>. QED  BY <1>4, <1>6, <1>7, <1>8

-----------------------------------------------------------------------------
(* What one step does to the copies and to the claims.                     *)

\* Caches get delivered versions, undelivered ones are what is stored, and a
\* worker's copy comes from its cache or from the reply to its write.
CopiesFollow ==
  \A m \in Managers :
    /\ cache'[m] \in {cache[m], ssw} \cup pend[m]
    /\ pend'[m] \subseteq pend[m] \cup {ssw'}
    /\ obj'[m] \in {obj[m], NoSsw(0), cache[m], Finalized(cache[m]), ssw'}

\* No worker but "claimant" comes to hold a claim.
OthersKeep(claimant) ==
  \A m \in Managers \ {claimant} : Claiming(m)' => Claiming(m) /\ obj'[m] = obj[m]

\* A step makes no claim, or one with a new version, or sends one and drops it.
ClaimStep ==
  \/ /\ notices' = notices
     /\ \A m \in Managers : Claiming(m)' => Claiming(m) /\ obj'[m] = obj[m]
  \/ \E m \in Managers : /\ notices' = notices /\ OthersKeep(m)
                         /\ obj'[m] = ssw' /\ ssw'.rv = ssw.rv + 1
  \/ \E m \in Managers : /\ notices' = Append(notices, obj[m].rv) /\ OthersKeep(m)
                         /\ Claiming(m) /\ ~Claiming(m)'

Summary == Grows /\ Claimed /\ CopiesFollow /\ ClaimStep

\* The summary carries the strengthening: known copies stay known.
LEMMA KnownKept ==
  ASSUME TypeOK, CopiesKnown, Grows, CopiesFollow
  PROVE  CopiesKnown'
<1>1. \A o \in Ssws : Known(o, ssw) => Known(o, ssw')
  BY DEF Grows, Known, Ssws, TypeOK
<1>2. /\ ssw \in Ssws /\ ssw' \in Ssws
      /\ \A m \in Managers : /\ cache[m] \in Ssws /\ obj[m] \in Ssws
                             /\ pend[m] \subseteq Ssws
  BY DEF TypeOK, Grows
<1>3. ssw'.rv > 0 /\ Known(ssw, ssw) /\ Known(ssw', ssw')
  BY <1>2 DEF CopiesKnown, Grows, Known, Ssws
<1>4. Known(NoSsw(0), ssw')
  BY <1>2, <1>3 DEF Known, NoSsw, Ssws
<1>5. ASSUME NEW m \in Managers
      PROVE  Known(cache[m], ssw') /\ Known(Finalized(cache[m]), ssw')
  <2>1. Known(cache[m], ssw')
    BY <1>1, <1>2 DEF CopiesKnown
  <2>2. /\ Finalized(cache[m]).rv = cache[m].rv
        /\ Finalized(cache[m]).last = cache[m].last
    BY <1>2 DEF Finalized, Ssws
  <2>. QED  BY <2>1, <2>2 DEF Known
<1>6. ASSUME NEW m \in Managers
      PROVE  /\ Known(cache'[m], ssw') /\ Known(obj'[m], ssw')
             /\ \A o \in pend'[m] : Known(o, ssw')
  <2>1. \A o \in pend[m] \cup {ssw, ssw'} : Known(o, ssw')
    BY <1>1, <1>2, <1>3 DEF CopiesKnown
  <2>2. Known(obj[m], ssw')
    BY <1>1, <1>2 DEF CopiesKnown
  <2>3. Known(cache'[m], ssw') /\ \A o \in pend'[m] : Known(o, ssw')
    BY <1>5, <2>1 DEF CopiesFollow
  <2>4. Known(obj'[m], ssw')
    BY <1>3, <1>4, <1>5, <2>2 DEF CopiesFollow
  <2>. QED  BY <2>3, <2>4
<1>. QED  BY <1>3, <1>6 DEF CopiesKnown

\* And it carries the claims: one is sent once, by the worker that made it.
LEMMA ClaimsKept ==
  ASSUME Inductive, Grows, ClaimStep
  PROVE  ClaimsUnsent' /\ NoticePerClaim'
<1>1. /\ notices \in Seq(Nat)
      /\ ssw.rv \in Nat /\ ssw'.rv \in Nat /\ ssw.rv <= ssw'.rv
      /\ \A m \in Managers : obj[m].rv \in Nat /\ obj[m].rv <= ssw.rv
  BY DEF Inductive, TypeOK, CopiesKnown, Known, Grows, Ssws
<1>2. \A i \in DOMAIN notices : notices[i] \in Nat /\ notices[i] <= ssw.rv
  BY <1>1 DEF Inductive, ClaimsUnsent
<1>3. \A m \in Managers : Claiming(m) =>
        /\ \A i \in DOMAIN notices : notices[i] # obj[m].rv
        /\ \A n \in Managers : Claiming(n) /\ n # m => obj[n].rv # obj[m].rv
  BY DEF Inductive, ClaimsUnsent
<1>4. CASE /\ notices' = notices
           /\ \A m \in Managers : Claiming(m)' => Claiming(m) /\ obj'[m] = obj[m]
  BY <1>1, <1>2, <1>3, <1>4 DEF Inductive, ClaimsUnsent, NoticePerClaim
<1>5. ASSUME NEW m \in Managers, notices' = notices, OthersKeep(m),
             obj'[m] = ssw', ssw'.rv = ssw.rv + 1
      PROVE  ClaimsUnsent' /\ NoticePerClaim'
  <2>1. \A i \in DOMAIN notices : notices[i] < obj'[m].rv
    BY <1>1, <1>2, <1>5
  <2>2. \A n \in Managers \ {m} : Claiming(n)' =>
          Claiming(n) /\ obj'[n] = obj[n] /\ obj'[n].rv < obj'[m].rv
    BY <1>1, <1>5 DEF OthersKeep
  <2>3. \A i \in DOMAIN notices' : notices'[i] <= ssw'.rv
    BY <1>1, <1>2, <1>5
  <2>4. ASSUME NEW n \in Managers, Claiming(n)'
        PROVE  /\ \A i \in DOMAIN notices' : notices'[i] # obj'[n].rv
               /\ \A k \in Managers : Claiming(k)' /\ k # n => obj'[k].rv # obj'[n].rv
    <3>1. CASE n = m
      BY <1>1, <1>2, <1>5, <2>1, <2>2, <3>1
    <3>2. CASE n # m
      <4>1. Claiming(n) /\ obj'[n] = obj[n] /\ obj'[n].rv < obj'[m].rv
        BY <2>2, <2>4, <3>2
      <4>2. \A i \in DOMAIN notices' : notices'[i] # obj'[n].rv
        BY <1>3, <1>5, <4>1
      <4>3. ASSUME NEW k \in Managers, Claiming(k)', k # n
            PROVE  obj'[k].rv # obj'[n].rv
        <5>1. CASE k = m
          BY <1>1, <1>5, <4>1, <5>1
        <5>2. CASE k # m
          BY <1>3, <2>2, <4>1, <4>3, <5>2
        <5>. QED  BY <5>1, <5>2
      <4>. QED  BY <4>2, <4>3
    <3>. QED  BY <3>1, <3>2
  <2>. QED  BY <1>5, <2>3, <2>4 DEF ClaimsUnsent, Inductive, NoticePerClaim
<1>6. ASSUME NEW m \in Managers, notices' = Append(notices, obj[m].rv),
             OthersKeep(m), Claiming(m), ~Claiming(m)'
      PROVE  ClaimsUnsent' /\ NoticePerClaim'
  <2>1. /\ DOMAIN notices' = 1..(Len(notices) + 1)
        /\ \A i \in DOMAIN notices : notices'[i] = notices[i]
        /\ notices'[Len(notices) + 1] = obj[m].rv
        /\ DOMAIN notices = 1..Len(notices) /\ Len(notices) \in Nat
    BY <1>1, <1>6
  <2>2. \A i \in DOMAIN notices' : i \in DOMAIN notices \/ i = Len(notices) + 1
    BY <2>1
  <2>3. \A i \in DOMAIN notices' : notices'[i] <= ssw'.rv
    BY <1>1, <1>2, <2>1, <2>2
  <2>4. \A n \in Managers : Claiming(n)' => n # m /\ Claiming(n) /\ obj'[n] = obj[n]
    BY <1>6 DEF OthersKeep
  <2>5. \A n \in Managers : Claiming(n)' =>
          /\ \A i \in DOMAIN notices' : notices'[i] # obj'[n].rv
          /\ \A k \in Managers : Claiming(k)' /\ k # n => obj'[k].rv # obj'[n].rv
    BY <1>3, <1>6, <2>1, <2>2, <2>4
  <2>6. \A i, j \in DOMAIN notices' : notices'[i] = notices'[j] => i = j
    BY <1>3, <1>6, <2>1, <2>2 DEF Inductive, NoticePerClaim
  <2>. QED  BY <2>3, <2>5, <2>6 DEF ClaimsUnsent, NoticePerClaim
<1>. QED  BY <1>4, <1>5, <1>6 DEF ClaimStep

-----------------------------------------------------------------------------
(* What a step does to the queue entry and the copy of one worker.         *)

WorkerTyped ==
  /\ queued \in [Managers -> BOOLEAN] /\ timer \in [Managers -> 0..Never]
  /\ pc \in [Managers -> Labels]
  /\ obj \in [Managers -> Ssws] /\ base \in [Managers -> Nat]

LedgerTyped ==
  /\ cm \in Ledgers /\ cmPend \in [Managers -> SUBSET Ledgers]
  /\ cmNote \in [Managers -> BOOLEAN]

OthersRest(m) == \A n \in Managers \ {m} : obj'[n] = obj[n] /\ pc'[n] = pc[n]

\* A worker keeps its copy, or takes one from its cache or from the reply to
\* its write; a claim it comes to hold is the latter.
WorkerMoves(m) ==
  /\ WorkerTyped' /\ OthersRest(m)
  /\ obj'[m] \in {obj[m], NoSsw(0), cache[m], Finalized(cache[m]), ssw'}
  /\ \/ ~Claiming(m)'
     \/ Claiming(m) /\ obj'[m] = obj[m]
     \/ obj'[m] = ssw' /\ ssw'.rv = ssw.rv + 1

\* The records for what is absent, and a copy with the finalizer.
LEMMA ConstantsTyped ==
  /\ Never \in Nat /\ Day \in Nat \ {0} /\ Poll \in Nat
  /\ \A rv \in Nat : NoSsw(rv) \in Ssws /\ NewSsw(rv) \in Ssws
  /\ \A rv \in Nat : NoLedger(rv) \in Ledgers
  /\ \A o \in Ssws : Finalized(o) \in Ssws
<1>1. Never \in Nat /\ Day \in Nat \ {0} /\ Poll \in Nat /\ Epoch \in Int
  BY DayAssumption, PollAssumption, BoundAssumption DEF Never, Epoch
<1>2. \A rv \in Nat : NoSsw(rv) \in Ssws
  BY <1>1 DEF NoSsw, Ssws
<1>3. \A rv \in Nat : NewSsw(rv) \in Ssws
  <2>1. ASSUME NEW o \in Ssws, NEW rv \in Nat
        PROVE  [o EXCEPT !.exists = TRUE, !.uid = rv] \in Ssws
    BY DEF Ssws
  <2>. QED  BY <1>2, <2>1 DEF NewSsw
<1>4. \A rv \in Nat : NoLedger(rv) \in Ledgers
  BY DEF NoLedger, Ledgers
<1>5. \A o \in Ssws : Finalized(o) \in Ssws
  BY DEF Finalized, Ssws
<1>. QED  BY <1>1, <1>2, <1>3, <1>4, <1>5

\* However a run ends, the worker is idle and holds no copy.
LEMMA EndMoves ==
  ASSUME TypeOK, NEW m \in Managers,
         Stop(m) \/ Retry(m) \/ After(m, Poll) \/ After(m, Day)
  PROVE  WorkerMoves(m)
<1>1. Finish(m) /\ obj' = [obj EXCEPT ![m] = NoSsw(0)]
  BY DEF Stop, Retry, After, Finish
<1>2. /\ pc' \in [Managers -> Labels] /\ pc'[m] = "idle"
      /\ obj' \in [Managers -> Ssws] /\ base' \in [Managers -> Nat]
      /\ OthersRest(m) /\ obj'[m] = NoSsw(0)
  <2>1. NoSsw(0) \in Ssws
    BY ConstantsTyped
  <2>. QED  BY <1>1, <2>1 DEF TypeOK, Finish, Labels, OthersRest
<1>3. queued' \in [Managers -> BOOLEAN] /\ timer' \in [Managers -> 0..Never]
  <2>1. /\ Never \in Nat /\ now \in Nat /\ Poll \in Nat /\ Day \in Nat
        /\ queued \in [Managers -> BOOLEAN] /\ timer \in [Managers -> 0..Never]
    BY ConstantsTyped DEF TypeOK
  <2>2. CASE Stop(m)
    BY <2>1, <2>2 DEF Stop
  <2>3. CASE Retry(m)
    BY <2>1, <2>3 DEF Retry
  <2>4. ASSUME NEW d \in Nat, After(m, d)
        PROVE  queued' \in [Managers -> BOOLEAN] /\ timer' \in [Managers -> 0..Never]
    BY <2>1, <2>4 DEF After
  <2>. QED  BY <2>1, <2>2, <2>3, <2>4
<1>4. ~Claiming(m)'
  BY <1>2 DEF Claiming
<1>. QED  BY <1>2, <1>3, <1>4 DEF WorkerMoves, WorkerTyped

\* A worker that goes on keeps the queue as it is.
LEMMA GoMoves ==
  ASSUME TypeOK, NEW m \in Managers, NEW label \in Labels, Goto(m, label),
         obj' \in [Managers -> Ssws], base' \in [Managers -> Nat],
         \A n \in Managers \ {m} : obj'[n] = obj[n],
         obj'[m] \in {obj[m], NoSsw(0), cache[m], Finalized(cache[m]), ssw'},
         \/ label \notin {"window", "notify"}
         \/ Claiming(m) /\ obj'[m] = obj[m]
         \/ obj'[m] = ssw' /\ ssw'.rv = ssw.rv + 1
  PROVE  WorkerMoves(m)
<1>1. /\ pc' \in [Managers -> Labels] /\ pc'[m] = label
      /\ \A n \in Managers \ {m} : pc'[n] = pc[n]
      /\ queued' = queued /\ timer' = timer
  BY DEF TypeOK, Goto
<1>2. label \notin {"window", "notify"} => ~Claiming(m)'
  BY <1>1 DEF Claiming
<1>. QED  BY <1>1, <1>2 DEF WorkerMoves, WorkerTyped, OthersRest, TypeOK

\* Enough for a step of one worker that sends nothing.
LEMMA WorkerStep ==
  ASSUME Inductive, NEW m \in Managers, WorkerMoves(m), Stored, Claimed,
         budget' \in 0..Budget, secrets' \in Nat, LedgerTyped',
         UNCHANGED <<now, views>>, notices' = notices
  PROVE  TypeOK' /\ Summary
<1>1. /\ pend' \in [Managers -> SUBSET Ssws] /\ ssw' \in Ssws
      /\ \A n \in Managers : pend'[n] \subseteq pend[n] \cup {ssw'}
  BY DEF Inductive, TypeOK, Stored, Publish, store
<1>2. ssw'.last <= now'
  <2>1. now \in Nat /\ now' = now /\ ssw.last <= now /\ Epoch \in Int /\ Epoch <= 0
    BY DayAssumption DEF Inductive, TypeOK, Epoch
  <2>. QED  BY <2>1 DEF Claimed
<1>3. TypeOK'
  BY <1>1, <1>2 DEF Inductive, TypeOK, WorkerMoves, WorkerTyped, LedgerTyped, views
<1>4. CopiesFollow
  BY <1>1 DEF CopiesFollow, WorkerMoves, OthersRest, views
<1>5. \A n \in Managers \ {m} : Claiming(n)' => Claiming(n) /\ obj'[n] = obj[n]
  BY DEF WorkerMoves, OthersRest, Claiming
<1>6. ClaimStep
  <2>1. CASE obj'[m] = ssw' /\ ssw'.rv = ssw.rv + 1
    BY <1>5, <2>1 DEF ClaimStep, OthersKeep
  <2>2. CASE Claiming(m)' => Claiming(m) /\ obj'[m] = obj[m]
    BY <1>5, <2>2 DEF ClaimStep
  <2>. QED  BY <2>1, <2>2 DEF WorkerMoves
<1>. QED  BY <1>3, <1>4, <1>6 DEF Summary, Grows, Stored, store

-----------------------------------------------------------------------------
(* The steps of a worker.                                                  *)

\* What every step needs of the types.
LEMMA Typed ==
  ASSUME Inductive, NEW m \in Managers
  PROVE  /\ TypeOK /\ LedgerTyped /\ secrets \in Nat /\ budget \in 0..Budget
         /\ ssw \in Ssws /\ cache[m] \in Ssws /\ obj[m] \in Ssws /\ base[m] \in Nat
         /\ obj \in [Managers -> Ssws] /\ base \in [Managers -> Nat]
         /\ cmCache[m] \in Ledgers
         /\ Known(cache[m], ssw) /\ Known(obj[m], ssw)
  BY DEF Inductive, TypeOK, CopiesKnown, LedgerTyped

\* A step that writes nothing to the store claims nothing.
LEMMA NothingStored ==
  ASSUME UNCHANGED store
  PROVE  Stored /\ Claimed
  BY DEF Stored, Claimed, store

\* A condition keeps the claim.
LEMMA ConditionOutcome ==
  ASSUME Inductive, NEW m \in Managers, NEW c \in Conditions,
         ConditionSet(m, c) \/ ConditionFails(m, c)
  PROVE  Stored /\ Claimed /\ budget' \in 0..Budget
<1>1. [cache[m] EXCEPT !.conds = @ \cup {c}] \in Ssws
  BY Typed DEF Ssws
<1>2. TypeOK /\ cache[m] \in Ssws
  BY Typed
<1>. QED  BY <1>1, <1>2, StatusOutcome DEF ConditionSet, ConditionFails, WithCondition

\* Storing or deleting a ledger keeps its type.
LEMMA LedgerKept ==
  ASSUME LedgerTyped, NEW o \in Ledgers,
         PublishLedger(o) \/ UNCHANGED ledger
  PROVE  LedgerTyped'
<1>1. CASE UNCHANGED ledger
  BY <1>1 DEF LedgerTyped, ledger
<1>2. CASE PublishLedger(o)
  <2>1. cm' \in Ledgers /\ cmNote' \in [Managers -> BOOLEAN]
    BY <1>2 DEF PublishLedger
  <2>2. cmPend' \in [Managers -> SUBSET Ledgers]
    <3>1. \A m \in Managers : cmPend[m] \cup {o} \in SUBSET Ledgers
      BY DEF LedgerTyped
    <3>. QED  BY <1>2, <3>1 DEF PublishLedger
  <2>. QED  BY <2>1, <2>2 DEF LedgerTyped
<1>. QED  BY <1>1, <1>2

\* Taking the ssw from the queue keeps the invariant: the copy is the cache's
\* (lines 91 to 107).
LEMMA FetchStep ==
  ASSUME Inductive, NEW m \in Managers, Fetch(m)
  PROVE  TypeOK' /\ Summary
<1>1. WorkerMoves(m)
  <2>1. /\ queued' \in [Managers -> BOOLEAN] /\ timer' \in [Managers -> 0..Never]
        /\ pc' \in [Managers -> Labels] /\ obj' \in [Managers -> Ssws]
        /\ base' \in [Managers -> Nat]
    BY DEF Fetch, Inductive, TypeOK, Labels
  <2>2. OthersRest(m) /\ obj'[m] \in {obj[m], cache[m]} /\ pc'[m] \in {"idle", "started"}
    BY DEF Fetch, Inductive, TypeOK, OthersRest
  <2>. QED  BY <2>1, <2>2 DEF WorkerMoves, WorkerTyped, Claiming
<1>2. UNCHANGED <<now, budget, secrets, store, ledger, views, notices>>
  BY DEF Fetch
<1>3. budget' \in 0..Budget /\ secrets' \in Nat /\ LedgerTyped'
  BY <1>2, Typed DEF LedgerTyped, ledger
<1>. QED  BY <1>1, <1>2, <1>3, NothingStored, WorkerStep

\* Started, PrepareWatchList and CompleteCondition: a condition, then on or end.
LEMMA ConditionStep ==
  ASSUME Inductive, NEW m \in Managers,
         Started(m) \/ PrepareWatchList(m) \/ CompleteCondition(m)
  PROVE  TypeOK' /\ Summary
<1>1. \E c \in Conditions : ConditionSet(m, c) \/ ConditionFails(m, c)
  BY DEF Started, PrepareWatchList, CompleteCondition, Conditions
<1>2. Stored /\ Claimed /\ budget' \in 0..Budget
  BY <1>1, ConditionOutcome
<1>3. WorkerMoves(m)
  <2>1. CASE Retry(m)
    BY <2>1, Typed, EndMoves
  <2>2. ASSUME NEW label \in Labels, label \notin {"window", "notify"}, Goto(m, label),
               obj' = obj, base' \in [Managers -> Nat]
        PROVE  WorkerMoves(m)
    BY <2>2, Typed, GoMoves
  <2>3. NextAfterStart(obj[m]) \in {"unfinal", "ledger", "final"}
    BY Typed DEF NextAfterStart, Ssws
  <2>4. [base EXCEPT ![m] = secrets] \in [Managers -> Nat]
    BY Typed
  <2>5. CASE Started(m)
    BY <2>1, <2>2, <2>3, <2>5, Typed DEF Started, Labels
  <2>6. CASE PrepareWatchList(m)
    BY <2>1, <2>2, <2>4, <2>6 DEF PrepareWatchList, Labels
  <2>7. CASE CompleteCondition(m)
    BY <2>1, <2>2, <2>7, Typed DEF CompleteCondition, Labels
  <2>. QED  BY <2>5, <2>6, <2>7
<1>4. UNCHANGED <<now, secrets, ledger, views, notices>>
  BY DEF Started, PrepareWatchList, CompleteCondition
<1>5. secrets' \in Nat /\ LedgerTyped'
  BY <1>4, Typed DEF LedgerTyped, ledger
<1>. QED  BY <1>2, <1>3, <1>4, <1>5, WorkerStep

\* Nor does the condition of addFinalizer touch a claim (lines 247 to 250).
LEMMA FinalizerConditionStep ==
  ASSUME Inductive, NEW m \in Managers, FinalizerCondition(m) \/ ConfigMapCondition(m)
  PROVE  TypeOK' /\ Summary
<1>1. \E c \in Conditions : ConditionSet(m, c) \/ ConditionFails(m, c)
  BY DEF FinalizerCondition, ConfigMapCondition, Conditions
<1>2. Stored /\ Claimed /\ budget' \in 0..Budget
  BY <1>1, ConditionOutcome
<1>3. WorkerMoves(m)
  <2>1. CASE ConfigMapCondition(m)
    BY <2>1, Typed, EndMoves DEF ConfigMapCondition
  <2>2. CASE FinalizerCondition(m)
    BY <2>2, Typed, GoMoves DEF FinalizerCondition, Labels
  <2>. QED  BY <2>1, <2>2
<1>4. UNCHANGED <<now, secrets, ledger, views, notices>>
  BY DEF FinalizerCondition, ConfigMapCondition
<1>5. secrets' \in Nat /\ LedgerTyped'
  BY <1>4, Typed DEF LedgerTyped, ledger
<1>. QED  BY <1>2, <1>3, <1>4, <1>5, WorkerStep

\* removeFinalizer writes a known copy and ends the run (lines 197 to 229).
LEMMA RemoveFinalizerStep ==
  ASSUME Inductive, NEW m \in Managers, RemoveFinalizer(m)
  PROVE  TypeOK' /\ Summary
<1>. DEFINE o == UpdateMain([cache[m] EXCEPT !.fin = FALSE])
<1>1. Succeeds(cache[m], o) \/ Fails(cache[m], o)
  BY DEF RemoveFinalizer
<1>2. Stored /\ Claimed /\ budget' \in 0..Budget
  BY <1>1, Typed, FinalizerOutcome
<1>3. WorkerMoves(m)
  BY Typed, EndMoves DEF RemoveFinalizer
<1>4. UNCHANGED <<now, secrets, ledger, views, notices>>
  BY DEF RemoveFinalizer
<1>5. secrets' \in Nat /\ LedgerTyped'
  BY <1>4, Typed DEF LedgerTyped, ledger
<1>. QED  BY <1>2, <1>3, <1>4, <1>5, WorkerStep

\* addFinalizer leaves the worker a known copy, refused or not (lines 232 to 246).
LEMMA AddFinalizerStep ==
  ASSUME Inductive, NEW m \in Managers, AddFinalizer(m)
  PROVE  TypeOK' /\ Summary
<1>. DEFINE o == UpdateMain([cache[m] EXCEPT !.fin = TRUE])
<1>1. Succeeds(cache[m], o) \/ Fails(cache[m], o)
  BY DEF AddFinalizer, Finalized
<1>2. Stored /\ Claimed /\ budget' \in 0..Budget
  BY <1>1, Typed, FinalizerOutcome
<1>3. ssw' \in Ssws /\ Finalized(cache[m]) \in Ssws
  BY <1>2, Typed, ConstantsTyped DEF Stored, store
<1>4. WorkerMoves(m)
  <2>1. ASSUME NEW label \in {"finalCond", "ledger"}, Goto(m, label), base' = base,
               NEW x \in {ssw', Finalized(cache[m]), obj[m]},
               obj' = [obj EXCEPT ![m] = x]
        PROVE  WorkerMoves(m)
    <3>1. /\ obj' \in [Managers -> Ssws] /\ obj'[m] = x
          /\ \A n \in Managers \ {m} : obj'[n] = obj[n]
      BY <1>3, <2>1, Typed
    <3>2. label \in Labels /\ base' \in [Managers -> Nat]
      BY <2>1, Typed DEF Labels
    <3>. QED  BY <2>1, <3>1, <3>2, Typed, GoMoves
  <2>2. \/ Goto(m, "finalCond") /\ obj' = [obj EXCEPT ![m] = ssw']
        \/ /\ Goto(m, "ledger")
           /\ \/ obj' = [obj EXCEPT ![m] = Finalized(cache[m])]
              \/ obj' = [obj EXCEPT ![m] = obj[m]]
    BY DEF AddFinalizer
  <2>3. base' = base
    BY DEF AddFinalizer
  <2>. QED  BY <2>1, <2>2, <2>3
<1>5. UNCHANGED <<now, secrets, ledger, views, notices>>
  BY DEF AddFinalizer
<1>6. secrets' \in Nat /\ LedgerTyped'
  BY <1>5, Typed DEF LedgerTyped, ledger
<1>. QED  BY <1>2, <1>4, <1>5, <1>6, WorkerStep

\* Creating the ledger touches no ssw (lines 122 to 148).
LEMMA EnsureConfigMapStep ==
  ASSUME Inductive, NEW m \in Managers, EnsureConfigMap(m)
  PROVE  TypeOK' /\ Summary
<1>. DEFINE created == [NoLedger(cm.rv + 1) EXCEPT !.exists = TRUE, !.owner = obj[m].uid]
<1>1. created \in Ledgers
  <2>1. NoLedger(cm.rv + 1) \in Ledgers /\ obj[m].uid \in Nat
    <3>1. cm.rv + 1 \in Nat /\ obj[m].uid \in Nat
      BY Typed DEF LedgerTyped, Ledgers, Ssws
    <3>. QED  BY <3>1, ConstantsTyped
  <2>2. ASSUME NEW l \in Ledgers, NEW uid \in Nat
        PROVE  [l EXCEPT !.exists = TRUE, !.owner = uid] \in Ledgers
    BY DEF Ledgers
  <2>. QED  BY <2>1, <2>2
<1>2. PublishLedger(created) \/ UNCHANGED ledger
  BY DEF EnsureConfigMap
<1>3. LedgerTyped'
  <2>. HIDE DEF created
  <2>. QED  BY <1>1, <1>2, Typed, LedgerKept
<1>4. WorkerMoves(m)
  <2>1. \/ Retry(m)
        \/ (Goto(m, "list") \/ Goto(m, "cmCond")) /\ UNCHANGED <<obj, base>>
    BY DEF EnsureConfigMap
  <2>2. CASE Retry(m)
    BY <2>2, Typed, EndMoves
  <2>3. ASSUME NEW label \in {"list", "cmCond"}, Goto(m, label), UNCHANGED <<obj, base>>
        PROVE  WorkerMoves(m)
    BY <2>3, Typed, GoMoves DEF Labels
  <2>. QED  BY <2>1, <2>2, <2>3
<1>5. UNCHANGED <<now, secrets, store, views, notices>>
  BY DEF EnsureConfigMap
<1>6. budget' \in 0..Budget /\ secrets' \in Nat
  BY <1>5, Typed DEF EnsureConfigMap, Disturb
<1>. QED  BY <1>3, <1>4, <1>5, <1>6, NothingStored, WorkerStep

\* A change of the secrets only touches the queues.
LEMMA SecretEventTyped ==
  ASSUME Inductive, SecretEvent
  PROVE  /\ secrets' \in Nat /\ budget' \in 0..Budget
         /\ queued' \in [Managers -> BOOLEAN]
<1>1. \A m \in Managers : (queued[m] \/ cache[m].exists) \in BOOLEAN
  OBVIOUS
<1>. QED  BY <1>1 DEF SecretEvent, Disturb, Inductive, TypeOK

\* Hashing touches no ssw, however it ends (lines 162 to 176).
LEMMA CalculateHashesStep ==
  ASSUME Inductive, NEW m \in Managers, CalculateHashes(m)
  PROVE  TypeOK' /\ Summary
<1>1. UNCHANGED <<now, store, ledger, views, notices>>
  BY DEF CalculateHashes
<1>2. LedgerTyped'
  BY <1>1, Typed DEF LedgerTyped, ledger
<1>3. CASE Retry(m) /\ UNCHANGED <<budget, secrets>>
  BY <1>1, <1>2, <1>3, Typed, EndMoves, NothingStored, WorkerStep
<1>4. ASSUME NEW label \in {"complete", "store"}, NEW b \in Nat, Goto(m, label),
             base' = [base EXCEPT ![m] = b], UNCHANGED <<obj, budget, secrets>>
      PROVE  TypeOK' /\ Summary
  <2>1. base' \in [Managers -> Nat] /\ label \in Labels
    BY <1>4, Typed DEF Labels
  <2>2. WorkerMoves(m)
    BY <1>4, <2>1, Typed, GoMoves
  <2>. QED  BY <1>1, <1>2, <1>4, <2>2, Typed, NothingStored, WorkerStep
<1>5. CASE SecretEvent /\ Finish(m) /\ UNCHANGED timer
  <2>1. /\ secrets' \in Nat /\ budget' \in 0..Budget
        /\ queued' \in [Managers -> BOOLEAN] /\ timer' \in [Managers -> 0..Never]
    BY <1>5, Typed, SecretEventTyped DEF TypeOK
  <2>2. /\ pc' \in [Managers -> Labels] /\ pc'[m] = "idle"
        /\ obj' \in [Managers -> Ssws] /\ base' \in [Managers -> Nat]
        /\ OthersRest(m) /\ obj'[m] = NoSsw(0)
    BY <1>5, Typed, ConstantsTyped DEF TypeOK, Finish, Labels, OthersRest
  <2>3. WorkerMoves(m)
    BY <2>1, <2>2 DEF WorkerMoves, WorkerTyped, Claiming
  <2>. QED  BY <1>1, <1>2, <2>1, <2>3, NothingStored, WorkerStep
<1>6. /\ [base EXCEPT ![m] = base[m]] = base /\ base[m] \in Nat /\ secrets \in Nat
  BY Typed
<1>7. \/ Retry(m) /\ UNCHANGED <<budget, secrets>>
      \/ Goto(m, "complete") /\ base' = base /\ UNCHANGED <<obj, budget, secrets>>
      \/ /\ Goto(m, "store") /\ base' = [base EXCEPT ![m] = secrets]
         /\ UNCHANGED <<obj, budget, secrets>>
      \/ SecretEvent /\ Finish(m) /\ UNCHANGED timer
  BY DEF CalculateHashes
<1>8. CASE Goto(m, "complete") /\ base' = base /\ UNCHANGED <<obj, budget, secrets>>
  BY <1>4, <1>6, <1>8
<1>9. CASE /\ Goto(m, "store") /\ base' = [base EXCEPT ![m] = secrets]
           /\ UNCHANGED <<obj, budget, secrets>>
  BY <1>4, <1>6, <1>9
<1>. QED  BY <1>3, <1>5, <1>7, <1>8, <1>9

\* Nor does storing the hashes (lines 531 to 554).
LEMMA StoreHashesStep ==
  ASSUME Inductive, NEW m \in Managers, StoreHashes(m)
  PROVE  TypeOK' /\ Summary
<1>. DEFINE o == [cm EXCEPT !.rv = @ + 1, !.data = base[m]]
<1>1. o \in Ledgers
  <2>1. cm \in Ledgers /\ base[m] \in Nat
    BY Typed DEF LedgerTyped
  <2>2. ASSUME NEW l \in Ledgers, NEW rv \in Nat, NEW data \in Nat
        PROVE  [l EXCEPT !.rv = rv, !.data = data] \in Ledgers
    BY DEF Ledgers
  <2>3. cm.rv + 1 \in Nat
    BY <2>1 DEF Ledgers
  <2>. QED  BY <2>1, <2>2, <2>3
<1>2. PublishLedger(o) \/ UNCHANGED ledger
  BY DEF StoreHashes, WriteLedger
<1>3. LedgerTyped'
  <2>. HIDE DEF o
  <2>. QED  BY <1>1, <1>2, Typed, LedgerKept
<1>4. WorkerMoves(m)
  <2>1. CASE Stop(m)
    BY <2>1, Typed, EndMoves
  <2>2. CASE Goto(m, "complete") /\ UNCHANGED <<obj, base>>
    BY <2>2, Typed, GoMoves DEF Labels
  <2>. QED  BY <2>1, <2>2 DEF StoreHashes, AfterStoreError
<1>5. UNCHANGED <<now, secrets, store, views, notices>>
  BY DEF StoreHashes
<1>6. budget' \in 0..Budget /\ secrets' \in Nat
  BY <1>5, Typed DEF StoreHashes, Disturb
<1>. QED  BY <1>3, <1>4, <1>5, <1>6, NothingStored, WorkerStep

\* A claim is a day after the last one and the worker's own (lines 625 to 642).
LEMMA ClaimDayStep ==
  ASSUME Inductive, NEW m \in Managers, ClaimDay(m)
  PROVE  TypeOK' /\ Summary
<1>. DEFINE o == UpdateMain([obj[m] EXCEPT !.last = ClaimStamp])
<1>1. UNCHANGED <<now, secrets, ledger, views, notices>>
  BY DEF ClaimDay
<1>2. secrets' \in Nat /\ LedgerTyped'
  BY <1>1, Typed DEF LedgerTyped, ledger
<1>3. CASE After(m, Poll) /\ UNCHANGED <<store, budget>>
  BY <1>1, <1>2, <1>3, Typed, EndMoves, NothingStored, WorkerStep
<1>4. CASE DueForCheck(obj[m]) /\ Fails(obj[m], o) /\ Retry(m)
  BY <1>1, <1>2, <1>4, Typed, EndMoves, ClaimOutcome, WorkerStep
<1>5. CASE /\ DueForCheck(obj[m]) /\ Succeeds(obj[m], o)
           /\ obj' = [obj EXCEPT ![m] = ssw'] /\ Goto(m, "window") /\ base' = base
  <2>1. /\ Stored /\ Claimed /\ budget' \in 0..Budget
        /\ ssw' \in Ssws /\ ssw'.rv = ssw.rv + 1
    BY <1>5, Typed, ClaimOutcome
  <2>2. /\ obj' \in [Managers -> Ssws] /\ obj'[m] = ssw'
        /\ \A n \in Managers \ {m} : obj'[n] = obj[n]
        /\ base' \in [Managers -> Nat]
    BY <1>5, <2>1, Typed
  <2>3. WorkerMoves(m)
    BY <1>5, <2>1, <2>2, Typed, GoMoves DEF Labels
  <2>. QED  BY <1>1, <1>2, <2>1, <2>3, WorkerStep
<1>. QED  BY <1>3, <1>4, <1>5 DEF ClaimDay, AfterClaimError

\* A claim goes on to Slack with the copy it was made with, or is dropped
\* (lines 644 to 661).
LEMMA ReadLedgerStep ==
  ASSUME Inductive, NEW m \in Managers, ReadLedger(m)
  PROVE  TypeOK' /\ Summary
<1>1. UNCHANGED <<now, budget, secrets, store, ledger, views, notices>>
  BY DEF ReadLedger
<1>2. budget' \in 0..Budget /\ secrets' \in Nat /\ LedgerTyped'
  BY <1>1, Typed DEF LedgerTyped, ledger
<1>3. WorkerMoves(m)
  <2>1. CASE After(m, Poll) \/ Retry(m)
    BY <2>1, Typed, EndMoves
  <2>2. CASE /\ pc[m] = "window" /\ Goto(m, "notify") /\ obj' = obj
             /\ base' = [base EXCEPT ![m] = cmCache[m].data]
    <3>1. Claiming(m) /\ base' \in [Managers -> Nat]
      BY <2>2, Typed DEF Claiming, Ledgers
    <3>. QED  BY <2>2, <3>1, Typed, GoMoves DEF Labels
  <2>. QED  BY <2>1, <2>2 DEF ReadLedger
<1>. QED  BY <1>1, <1>2, <1>3, NothingStored, WorkerStep

\* The report goes to the status and leaves the claim alone (lines 671 to 698).
LEMMA WriteReportStep ==
  ASSUME Inductive, NEW m \in Managers, WriteReport(m)
  PROVE  TypeOK' /\ Summary
<1>. DEFINE from == [cache[m] EXCEPT !.report = base[m]]
            o == UpdateStatus(from)
<1>1. Succeeds(cache[m], o) \/ Fails(cache[m], o)
  BY DEF WriteReport
<1>2. from \in Ssws
  BY Typed DEF Ssws
<1>3. Stored /\ Claimed /\ budget' \in 0..Budget
  BY <1>1, <1>2, Typed, StatusOutcome
<1>4. WorkerMoves(m)
  BY Typed, EndMoves DEF WriteReport
<1>5. UNCHANGED <<now, secrets, ledger, views, notices>>
  BY DEF WriteReport
<1>6. secrets' \in Nat /\ LedgerTyped'
  BY <1>5, Typed DEF LedgerTyped, ledger
<1>. QED  BY <1>3, <1>4, <1>5, <1>6, WorkerStep

\* The only step that sends: the worker that made the claim gives it up.
LEMMA NotifySlackStep ==
  ASSUME Inductive, NEW m \in Managers, NotifySlack(m)
  PROVE  TypeOK' /\ Summary
<1>1. UNCHANGED <<now, secrets, store, ledger, views>> /\ pc[m] = "notify"
  BY DEF NotifySlack
<1>2. budget' \in 0..Budget /\ secrets' \in Nat /\ LedgerTyped'
  BY <1>1, Typed DEF LedgerTyped, ledger, NotifySlack, Disturb
<1>3. WorkerMoves(m) /\ ~Claiming(m)'
  <2>1. CASE Retry(m)
    <3>1. pc'[m] = "idle"
      BY <2>1 DEF Retry, Finish, Inductive, TypeOK
    <3>. QED  BY <2>1, <3>1, Typed, EndMoves DEF Claiming
  <2>2. CASE Goto(m, "report") /\ UNCHANGED <<obj, base>>
    <3>1. pc'[m] = "report"
      BY <2>2 DEF Goto, Inductive, TypeOK
    <3>. QED  BY <2>2, <3>1, Typed, GoMoves DEF Claiming, Labels
  <2>. QED  BY <2>1, <2>2 DEF NotifySlack, AfterSlackError
<1>4. notices' = notices \/ notices' = Append(notices, obj[m].rv)
  BY DEF NotifySlack
<1>5. CASE notices' = notices
  BY <1>1, <1>2, <1>3, <1>5, NothingStored, WorkerStep
<1>6. CASE notices' = Append(notices, obj[m].rv)
  <2>1. Stored /\ Claimed /\ ssw' = ssw /\ pend' = pend
    BY <1>1, NothingStored DEF store
  <2>2. notices' \in Seq(Nat)
    BY <1>6, Typed DEF TypeOK, Ssws
  <2>3. TypeOK'
    BY <1>1, <1>2, <1>3, <2>1, <2>2
       DEF Inductive, TypeOK, WorkerMoves, WorkerTyped, LedgerTyped, views
  <2>4. CopiesFollow
    BY <1>1, <1>3, <2>1 DEF CopiesFollow, WorkerMoves, OthersRest, views
  <2>5. OthersKeep(m) /\ Claiming(m)
    BY <1>1, <1>3 DEF WorkerMoves, OthersRest, OthersKeep, Claiming
  <2>6. ClaimStep
    BY <1>3, <1>6, <2>5 DEF ClaimStep
  <2>. QED  BY <2>1, <2>3, <2>4, <2>6 DEF Summary, Grows
<1>. QED  BY <1>4, <1>5, <1>6

\* No step of a worker breaks the invariant.
LEMMA ReconcileStep ==
  ASSUME Inductive, NEW m \in Managers, Reconcile(m)
  PROVE  TypeOK' /\ Summary
BY FetchStep, ConditionStep, FinalizerConditionStep, RemoveFinalizerStep,
   AddFinalizerStep, EnsureConfigMapStep, CalculateHashesStep, StoreHashesStep,
   ClaimDayStep, ReadLedgerStep, NotifySlackStep, WriteReportStep
   DEF Reconcile

-----------------------------------------------------------------------------
(* The steps of the informers, the users and the clock.                    *)

\* Without a step of the worker, no claim is made or sent.
LEMMA QuietClaims ==
  ASSUME UNCHANGED <<pc, obj, notices>>
  PROVE  /\ ClaimStep
         /\ \A m \in Managers : obj'[m] = obj[m]
  BY DEF ClaimStep, Claiming

\* A delivered version was known when it was stored (line 281).
LEMMA DeliverSswStep ==
  ASSUME Inductive, NEW m \in Managers, DeliverSsw(m)
  PROVE  TypeOK' /\ Summary
<1>1. PICK o \in pend[m] :
        /\ cache' = [cache EXCEPT ![m] = o]
        /\ pend' = [pend EXCEPT ![m] = @ \ {o}]
        /\ queued' = [queued EXCEPT ![m] = TRUE]
        /\ UNCHANGED <<now, budget, secrets, ssw, ledger, cmCache, timer, pc, obj,
                       base, notices>>
  BY DEF DeliverSsw
<1>2. o \in Ssws
  BY DEF Inductive, TypeOK
<1>3. /\ cache' \in [Managers -> Ssws] /\ pend' \in [Managers -> SUBSET Ssws]
      /\ queued' \in [Managers -> BOOLEAN]
      /\ \A n \in Managers : /\ cache'[n] \in {cache[n]} \cup pend[n]
                             /\ pend'[n] \subseteq pend[n]
  BY <1>1, <1>2 DEF Inductive, TypeOK
<1>4. TypeOK'
  BY <1>1, <1>3 DEF Inductive, TypeOK, ledger
<1>5. Grows /\ Claimed /\ CopiesFollow /\ ClaimStep
  BY <1>1, <1>3, QuietClaims DEF Grows, Claimed, CopiesFollow
<1>. QED  BY <1>4, <1>5 DEF Summary

\* The cache of ConfigMaps is not part of a claim (line 282).
LEMMA DeliverLedgerStep ==
  ASSUME Inductive, NEW m \in Managers, DeliverLedger(m)
  PROVE  TypeOK' /\ Summary
<1>1. PICK o \in cmPend[m] :
        /\ cmCache' = [cmCache EXCEPT ![m] = o]
        /\ cmPend' = [cmPend EXCEPT ![m] = @ \ {o}]
        /\ UNCHANGED <<now, budget, secrets, store, cm, cmNote, cache, worker, notices>>
  BY DEF DeliverLedger
<1>2. /\ cmCache' \in [Managers -> Ledgers] /\ cmPend' \in [Managers -> SUBSET Ledgers]
  BY <1>1 DEF Inductive, TypeOK
<1>3. TypeOK'
  BY <1>1, <1>2 DEF Inductive, TypeOK, store, worker
<1>4. Grows /\ Claimed /\ CopiesFollow
  BY <1>1 DEF Grows, Claimed, CopiesFollow, store, worker
<1>. QED  BY <1>1, <1>3, <1>4, QuietClaims DEF Summary, worker

\* The other events only touch the queue, the clock or the secrets.
LEMMA QueueStep ==
  ASSUME Inductive, UNCHANGED <<store, views, pc, obj, base, notices>>,
         now' \in 0..MaxTime, now <= now', budget' \in 0..Budget, secrets' \in Nat,
         LedgerTyped', queued' \in [Managers -> BOOLEAN],
         timer' \in [Managers -> 0..Never]
  PROVE  TypeOK' /\ Summary
<1>1. ssw'.last <= now'
  BY BoundAssumption DEF Inductive, TypeOK, store, Ssws
<1>2. TypeOK'
  BY <1>1 DEF Inductive, TypeOK, LedgerTyped, store, views
<1>3. Grows /\ Claimed /\ CopiesFollow
  BY DEF Grows, Claimed, CopiesFollow, store, views
<1>. QED  BY <1>2, <1>3, QuietClaims DEF Summary

\* Events and timers only queue the ssw (lines 282 and 193).
LEMMA EventStep ==
  ASSUME Inductive,
         NEW m \in Managers, NoteLedger(m) \/ TimerFires(m)
  PROVE  TypeOK' /\ Summary
<1>1. /\ UNCHANGED <<now, budget, secrets, store, views, pc, obj, base, notices>>
      /\ queued' \in [Managers -> BOOLEAN] /\ timer' \in [Managers -> 0..Never]
      /\ LedgerTyped'
  <2>1. CASE NoteLedger(m)
    BY <2>1 DEF NoteLedger, Inductive, TypeOK, LedgerTyped
  <2>2. CASE TimerFires(m)
    <3>1. /\ UNCHANGED <<now, budget, secrets, store, views, pc, obj, base, notices>>
          /\ UNCHANGED ledger
      BY <2>2 DEF TimerFires
    <3>2. queued' \in [Managers -> BOOLEAN]
      BY <2>2 DEF TimerFires, Inductive, TypeOK
    <3>3. timer' \in [Managers -> 0..Never]
      BY <2>2, ConstantsTyped DEF TimerFires, Inductive, TypeOK
    <3>4. LedgerTyped'
      BY <3>1 DEF LedgerTyped, ledger, Inductive, TypeOK
    <3>. QED  BY <3>1, <3>2, <3>3, <3>4
  <2>. QED  BY <2>1, <2>2
<1>2. now' \in 0..MaxTime /\ now <= now' /\ budget' \in 0..Budget /\ secrets' \in Nat
  BY <1>1 DEF Inductive, TypeOK
<1>. QED  BY <1>1, <1>2, QueueStep

\* A restarted manager has no claim: one that was made is lost, never sent twice.
LEMMA CrashStep ==
  ASSUME Inductive, NEW m \in Managers, Crash(m)
  PROVE  TypeOK' /\ Summary
<1>1. /\ cache' \in [Managers -> Ssws] /\ pend' \in [Managers -> SUBSET Ssws]
      /\ cmCache' \in [Managers -> Ledgers] /\ cmPend' \in [Managers -> SUBSET Ledgers]
      /\ cmNote' \in [Managers -> BOOLEAN] /\ queued' \in [Managers -> BOOLEAN]
      /\ timer' \in [Managers -> 0..Never]
  <2>1. ssw \in Ssws /\ cm \in Ledgers /\ (ssw.exists \/ cm.exists) \in BOOLEAN
    BY Typed DEF LedgerTyped
  <2>2. Never \in 0..Never /\ TypeOK
    BY Typed, ConstantsTyped
  <2>3. cache' \in [Managers -> Ssws] /\ pend' \in [Managers -> SUBSET Ssws]
    BY <2>1, <2>2 DEF Crash, TypeOK
  <2>4. cmCache' \in [Managers -> Ledgers] /\ cmPend' \in [Managers -> SUBSET Ledgers]
    BY <2>1, <2>2 DEF Crash, TypeOK
  <2>5. /\ cmNote' \in [Managers -> BOOLEAN] /\ queued' \in [Managers -> BOOLEAN]
        /\ timer' \in [Managers -> 0..Never]
    BY <2>1, <2>2 DEF Crash, TypeOK
  <2>. QED  BY <2>3, <2>4, <2>5
<1>2. /\ pc' \in [Managers -> Labels] /\ obj' \in [Managers -> Ssws]
      /\ base' \in [Managers -> Nat] /\ OthersRest(m)
      /\ pc'[m] = "idle" /\ obj'[m] = NoSsw(0)
  BY Typed, ConstantsTyped DEF Crash, Finish, TypeOK, OthersRest, Labels
<1>3. budget' \in 0..Budget /\ UNCHANGED <<now, secrets, ssw, cm, notices>>
  BY Typed DEF Crash, Disturb
<1>4. TypeOK'
  BY <1>1, <1>2, <1>3 DEF Inductive, TypeOK
<1>5. CopiesFollow
  <2>1. \A n \in Managers : /\ cache'[n] \in {cache[n], ssw}
                            /\ pend'[n] \subseteq pend[n]
    BY DEF Crash, Inductive, TypeOK
  <2>2. \A n \in Managers : obj'[n] \in {obj[n], NoSsw(0)}
    BY <1>2 DEF OthersRest
  <2>. QED  BY <2>1, <2>2 DEF CopiesFollow
<1>6. ClaimStep
  BY <1>2, <1>3 DEF ClaimStep, OthersRest, Claiming
<1>. QED  BY <1>3, <1>4, <1>5, <1>6 DEF Summary, Grows, Claimed

\* A user who creates, edits or deletes the ssw makes no claim.
LEMMA UserStep ==
  ASSUME Inductive, CreateSsw \/ EditSsw \/ DeleteSsw
  PROVE  TypeOK' /\ Summary
<1>1. ssw \in Ssws /\ now \in Nat /\ Epoch \in Int /\ Epoch <= now /\ ssw.last <= now
  BY DayAssumption DEF Inductive, TypeOK, Epoch
<1>2. /\ UNCHANGED <<now, secrets, ledger, views, worker, notices>>
      /\ budget' \in 0..Budget
  BY DEF Inductive, TypeOK, Disturb, CreateSsw, EditSsw, DeleteSsw
<1>3. /\ Publish(ssw') /\ ssw' \in Ssws /\ ssw'.rv = ssw.rv + 1
      /\ ssw'.exists /\ ssw.exists => ssw'.last = ssw.last
      /\ ssw'.last \in {ssw.last, Epoch}
  <2>1. CASE CreateSsw
    <3>1. ssw' = NewSsw(ssw.rv + 1) /\ ssw.rv + 1 \in Nat /\ ~ssw.exists
      BY <1>1, <2>1 DEF CreateSsw, Publish, Ssws
    <3>2. ssw' \in Ssws /\ ssw'.rv = ssw.rv + 1 /\ ssw'.last = Epoch
      BY <3>1, ConstantsTyped DEF NewSsw, NoSsw
    <3>. QED  BY <2>1, <3>1, <3>2 DEF CreateSsw, Publish
  <2>2. CASE EditSsw
    <3>1. ssw' = Bump(ssw)
      BY <2>2 DEF EditSsw, Publish
    <3>. QED  BY <1>1, <2>2, <3>1 DEF EditSsw, Publish, Bump, Ssws
  <2>3. CASE DeleteSsw
    <3>1. CASE ssw.fin
      <4>1. ssw' = Bump([ssw EXCEPT !.deleting = TRUE])
        BY <2>3, <3>1 DEF DeleteSsw, Publish
      <4>2. /\ [ssw EXCEPT !.deleting = TRUE] \in Ssws
            /\ [ssw EXCEPT !.deleting = TRUE].last = ssw.last
        BY <1>1 DEF Ssws
      <4>3. ssw' \in Ssws /\ ssw'.rv = ssw.rv + 1 /\ ssw'.last = ssw.last
        <5>1. \A o \in Ssws : /\ Bump(o) \in Ssws /\ Bump(o).rv = ssw.rv + 1
                              /\ Bump(o).last = o.last
          BY <1>1 DEF Bump, Ssws
        <5>. QED  BY <4>1, <4>2, <5>1
      <4>. QED  BY <2>3, <4>3 DEF DeleteSsw, Publish
    <3>2. CASE ~ssw.fin
      <4>1. ssw' = Bump(NoSsw(ssw.rv)) /\ ssw.rv \in Nat
        BY <1>1, <2>3, <3>2 DEF DeleteSsw, Publish, Ssws
      <4>2. NoSsw(ssw.rv) \in Ssws /\ NoSsw(ssw.rv).last = Epoch /\ NoSsw(ssw.rv).exists = FALSE
        BY <4>1, ConstantsTyped DEF NoSsw
      <4>3. ssw' \in Ssws /\ ssw'.rv = ssw.rv + 1 /\ ssw'.last = Epoch /\ ssw'.exists = FALSE
        BY <4>1, <4>2 DEF Bump, Ssws
      <4>. QED  BY <2>3, <4>3 DEF DeleteSsw, Publish
    <3>. QED  BY <3>1, <3>2
  <2>. QED  BY <2>1, <2>2, <2>3
<1>4. /\ pend' \in [Managers -> SUBSET Ssws]
      /\ \A m \in Managers : pend'[m] \subseteq pend[m] \cup {ssw'}
  BY <1>3 DEF Publish, Inductive, TypeOK
<1>5. TypeOK'
  BY <1>1, <1>2, <1>3, <1>4 DEF Inductive, TypeOK, ledger, views, worker
<1>6. Grows /\ Claimed /\ CopiesFollow
  BY <1>2, <1>3, <1>4 DEF Grows, Claimed, CopiesFollow, views, worker
<1>. QED  BY <1>2, <1>5, <1>6, QuietClaims DEF Summary, worker

\* Users, the garbage collector and the clock make no claim.
LEMMA EnvironmentStep ==
  ASSUME Inductive, Environment
  PROVE  TypeOK' /\ Summary
<1>0. /\ now \in 0..MaxTime /\ MaxTime \in Nat /\ budget \in 0..Budget
      /\ secrets \in Nat /\ LedgerTyped /\ cm.rv \in Nat
      /\ queued \in [Managers -> BOOLEAN] /\ timer \in [Managers -> 0..Never]
  BY BoundAssumption DEF Inductive, TypeOK, LedgerTyped, Ledgers
<1>1. CASE CreateSsw \/ EditSsw \/ DeleteSsw
  BY <1>1, UserStep
<1>2. CASE ChangeSecret
  <2>1. /\ SecretEvent
        /\ UNCHANGED <<now, store, ledger, views, timer, pc, obj, base, notices>>
    BY <1>2 DEF ChangeSecret
  <2>2. /\ secrets' \in Nat /\ budget' \in 0..Budget
        /\ queued' \in [Managers -> BOOLEAN]
    BY <2>1, SecretEventTyped
  <2>3. LedgerTyped' /\ timer' \in [Managers -> 0..Never]
    BY <1>0, <2>1 DEF LedgerTyped, ledger
  <2>. QED  BY <1>0, <2>1, <2>2, <2>3, QueueStep
<1>3. CASE DeleteLedger
  <2>1. PublishLedger(NoLedger(cm.rv + 1))
    BY <1>3 DEF DeleteLedger
  <2>2. LedgerTyped'
    <3>1. NoLedger(cm.rv + 1) \in Ledgers
      BY <1>0, ConstantsTyped
    <3>. QED  BY <1>0, <2>1, <3>1, LedgerKept
  <2>3. /\ UNCHANGED <<now, secrets, store, views, worker, notices>>
        /\ budget' \in 0..Budget
    BY <1>0, <1>3 DEF DeleteLedger, Disturb
  <2>. QED  BY <1>0, <2>2, <2>3, QueueStep DEF worker
<1>4. CASE Tick
  <2>1. /\ now' \in 0..MaxTime /\ now <= now'
        /\ UNCHANGED <<budget, secrets, store, ledger, views, timer, pc, obj, base, notices>>
    BY <1>0, <1>4 DEF Tick
  <2>2. queued' \in [Managers -> BOOLEAN]
    <3>1. \A m \in Managers : (queued[m] \/ cache[m].exists) \in BOOLEAN
      OBVIOUS
    <3>. QED  BY <1>0, <1>4, <3>1 DEF Tick
  <2>3. LedgerTyped'
    BY <1>0, <2>1 DEF LedgerTyped, ledger
  <2>. QED  BY <1>0, <2>1, <2>2, <2>3, QueueStep
<1>. QED  BY <1>1, <1>2, <1>3, <1>4 DEF Environment

\* No step at all breaks the invariant.
LEMMA NextStep ==
  ASSUME Inductive, Next
  PROVE  TypeOK' /\ Summary
BY ReconcileStep, DeliverSswStep, DeliverLedgerStep, EventStep, CrashStep,
   EnvironmentStep DEF Next, Informers

-----------------------------------------------------------------------------
(* The theorems.                                                           *)

\* It holds when the managers start.
LEMMA InitInductive == Init => Inductive
<1>. SUFFICES ASSUME Init PROVE Inductive
  OBVIOUS
<1>1. /\ NewSsw(1) \in Ssws /\ NoSsw(0) \in Ssws /\ NoLedger(0) \in Ledgers
      /\ Never \in Nat
  BY ConstantsTyped
<1>2. /\ NewSsw(1).rv = 1 /\ NewSsw(1).last = Epoch /\ NoSsw(0).rv = 0
      /\ Epoch \in Int /\ Epoch <= 0
  BY DayAssumption DEF NewSsw, NoSsw, Epoch
<1>3. now = 0 /\ 0 \in 0..MaxTime /\ Budget \in 0..Budget /\ "idle" \in Labels
  BY BoundAssumption DEF Init, Labels
<1>4. TypeOK
  <2>1. /\ cache \in [Managers -> Ssws] /\ obj \in [Managers -> Ssws]
        /\ cmCache \in [Managers -> Ledgers] /\ pend \in [Managers -> SUBSET Ssws]
        /\ cmPend \in [Managers -> SUBSET Ledgers] /\ timer \in [Managers -> 0..Never]
        /\ pc \in [Managers -> Labels] /\ base \in [Managers -> Nat]
        /\ cmNote \in [Managers -> BOOLEAN] /\ queued \in [Managers -> BOOLEAN]
    BY <1>1, <1>3 DEF Init
  <2>2. /\ ssw \in Ssws /\ cm \in Ledgers /\ ssw.last <= now
        /\ budget \in 0..Budget /\ secrets \in Nat /\ notices \in Seq(Nat)
    BY <1>1, <1>2, <1>3, SecretsAssumption DEF Init
  <2>. QED  BY <1>3, <2>1, <2>2 DEF TypeOK
<1>5. CopiesKnown
  BY <1>2 DEF Init, CopiesKnown, Known
<1>6. ClaimsUnsent /\ NoticePerClaim
  BY DEF Init, ClaimsUnsent, NoticePerClaim, Claiming
<1>. QED  BY <1>4, <1>5, <1>6 DEF Inductive

\* It is inductive, and every step spaces the claims.
LEMMA StepInductive == Inductive /\ [Next]_vars => Inductive' /\ Claimed
<1>. SUFFICES ASSUME Inductive, [Next]_vars PROVE Inductive' /\ Claimed
  OBVIOUS
<1>1. CASE Next
  BY <1>1, NextStep, KnownKept, ClaimsKept DEF Inductive, Summary
<1>2. CASE UNCHANGED vars
  BY <1>2 DEF Inductive, TypeOK, CopiesKnown, Known, ClaimsUnsent, Claiming,
              NoticePerClaim, Claimed, vars, store, ledger, views, worker
<1>. QED  BY <1>1, <1>2

\* The invariant the other theorems rest on.
THEOREM InductiveHolds == Spec => []Inductive
BY InitInductive, StepInductive, PTL DEF Spec

\* No state of any size is malformed, and no lastChecked annotation is ever from
\* the future.
THEOREM TypeCorrect == Spec => []TypeOK
BY InductiveHolds, PTL DEF Inductive

\* Slack gets at most one message for a claim of the annotation, for any number
\* of managers, faults and crashes.
THEOREM OneNoticePerClaim == Spec => []NoticePerClaim
BY InductiveHolds, PTL DEF Inductive

\* Two claims of one ssw are 24 hours apart, for any number of managers.
THEOREM ClaimsAreSpaced == Spec => ClaimsSpaced
<1>1. Inductive /\ [Next]_vars
        => [ssw.exists /\ ssw'.exists /\ ssw'.last # ssw.last
              => ssw'.last >= ssw.last + Day]_vars
  BY StepInductive DEF Claimed
<1>. QED  BY <1>1, InductiveHolds, PTL DEF Spec, ClaimsSpaced

=============================================================================
