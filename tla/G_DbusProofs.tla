---------------------------- MODULE G_DbusProofs ----------------------------
(***************************************************************************)
(* Proofs about G_DbusConnection, for any number of endpoints, processes   *)
(* and names, and about G_DbusServer: what is exported and subscribed      *)
(* during the life of the connections, for any interfaces.                 *)
(***************************************************************************)
EXTENDS G_DbusServer, TLAPS

\* Only a started endpoint has a registration, only a constructed one has a
\* process with a SIGTERM handler.
LifeCycle ==
    \A e \in Endpoints :
        /\ own[e] # "none" => life[e] = "started"
        /\ life[e] # "absent" => handler[ProcOf[e]]

\* Something of the process holds a connection that exists, and a closed one
\* that has been announced serves no name any more.
LinkHeld ==
    \A p \in Procs : link[p] # "none" => \E e \in Members(p) : own[e] # "none"
ClosedLinkIdle ==
    \A e \in Endpoints :
        link[ProcOf[e]] = "closed" => own[e] \notin {"granted", "refused", "named"}

\* NameLost is under way only to a registration that listens.
LostListens == \A e \in Endpoints : lost[e] => own[e] \in {"granted", "named"}

\* The daemon knows endpoints by their own names, over open connections.
Claims(e, n) == owner[n] = e \/ e \in queue[n]
ClaimsOpen ==
    \A e \in Endpoints, n \in Names :
        Claims(e, n) => n = NameOf[e] /\ link[ProcOf[e]] = "open"

ClientProxies == \A e \in Endpoints : proxies[e] # {} => e \in Clients

IInv ==
    /\ TypeOK
    /\ ConnUsable
    /\ OneRegistration
    /\ RetryArmed
    /\ ProxiesFresh
    /\ NoSilentLoss
    /\ LifeCycle
    /\ LinkHeld
    /\ ClosedLinkIdle
    /\ LostListens
    /\ ClaimsOpen
    /\ ClientProxies

\* The deployments in which a lost registration leaves nothing behind: GLib
\* leaves waiting lists too, or each process has one endpoint, whose
\* connection closes when it loses its name.
Tidy ==
    \/ ReleaseOnQueued
    \/ \A e, f \in Endpoints : ProcOf[e] = ProcOf[f] => e = f

USE ProcOfAssumption, NameOfAssumption, NoOwnerAssumption, ClientsAssumption

-----------------------------------------------------------------------------
(* The pieces of on_name_lost.                                             *)

\* A withdrawal takes claims away and makes none; who waits may own.
LEMMA WithdrawFacts ==
    ASSUME TypeOK, NEW gone, Withdraw(gone)
    PROVE  /\ busUp' = busUp
           /\ owner' \in [Names -> Owners]
           /\ queue' \in [Names -> SUBSET Endpoints]
           /\ \A n \in Names : owner[n] \notin gone => owner'[n] = owner[n]
           /\ \A e \in Endpoints, n \in Names :
                 /\ Claims(e, n)' => Claims(e, n) /\ e \notin gone
                 /\ e \in queue'[n] => e \in queue[n]
<1>1. /\ busUp' = busUp
      /\ owner' \in [Names -> Owners]
      /\ \A n \in Names : owner'[n] \in Heirs(n, gone)
      /\ queue' = [n \in Names |-> (queue[n] \ gone) \ {owner'[n]}]
  BY DEF Withdraw
<1>2. queue' \in [Names -> SUBSET Endpoints]
  BY <1>1 DEF TypeOK
<1>3. \A n \in Names : owner[n] \notin gone => owner'[n] = owner[n]
  BY <1>1 DEF Heirs
<1>4. ASSUME NEW e \in Endpoints, NEW n \in Names, Claims(e, n)'
      PROVE  Claims(e, n) /\ e \notin gone
  <2>1. CASE e \in queue'[n]
    BY <1>1, <2>1 DEF Claims
  <2>2. CASE owner'[n] = e
    BY <1>1, <2>2 DEF Claims, Heirs
  <2>. QED
    BY <1>4, <2>1, <2>2 DEF Claims
<1>. QED
  BY <1>1, <1>2, <1>3, <1>4

\* Once the endpoints S have gone through on_name_lost, the connection of
\* their process is held exactly if another endpoint has a registration.
LEMMA HeldByOthers ==
    ASSUME IInv, NEW p \in Procs, NEW S \in SUBSET Members(p),
           \A e \in S : own[e] # "none",
           ClearProxyCache(S), Unown(S)
    PROVE  Held(p) <=> \E e \in Members(p) \ S : own[e] # "none"
<1>. USE DEF Members
<1>1. \A e \in Endpoints : own'[e] = IF e \in S THEN "none" ELSE own[e]
  BY DEF IInv, OneRegistration, Unown
<1>2. \A e \in Endpoints : ~orphan[e]
  BY DEF IInv, OneRegistration
<1>3. \A e \in Endpoints : proxies'[e] # {} => e \notin S /\ own[e] # "none"
  BY DEF IInv, ClearProxyCache, ProxiesFresh, ClientProxies, ConnUsable, Connected
<1>. QED
  BY <1>1, <1>2, <1>3 DEF Held

\* on_name_lost preserves the invariant when it meets the endpoints S of p,
\* with l the state in which the connection goes on if somebody holds it.
LEMMA NameLostInv ==
    ASSUME IInv, NEW p \in Procs, NEW S \in SUBSET Members(p), NEW l,
           \A e \in S : own[e] # "none",
           \/ l = link[p]
           \/ /\ link[p] = "closing" /\ l = "closed"
              /\ \A e \in Members(p) : own[e] \in Connected => e \in S,
           OnNameLost(p, S, l)
    PROVE  IInv'
<1>. USE DEF Members
<1>. DEFINE H == \E e \in Members(p) \ S : own[e] # "none"
<1>1. Held(p) <=> H
  BY HeldByOthers DEF OnNameLost
<1>. HIDE DEF H
<1>2. \A e \in Endpoints :
        /\ own'[e] = IF e \in S THEN "none" ELSE own[e]
        /\ ownerId'[e] = (ownerId[e] /\ e \notin S)
        /\ lost'[e] = (lost[e] /\ e \notin S)
        /\ timer'[e] = (timer[e] \/ e \in S)
        /\ proxies'[e] = IF e \in S \cap Clients THEN {} ELSE proxies[e]
  BY DEF OnNameLost, Unown, ClearProxyCache, SetReconnTimer, IInv, OneRegistration
<1>3. \A e \in Endpoints : conn'[e] = IF e \in S THEN "null" ELSE conn[e]
  <2>1. ASSUME NEW e \in Members(p) \ S, conn[e] = "live" PROVE H
    BY <2>1 DEF H, IInv, ConnUsable, Connected
  <2>. QED
    BY <1>1, <2>1 DEF OnNameLost, DropConn
<1>4. /\ link' = [link EXCEPT ![p] = IF H THEN l ELSE "none"]
      /\ handler' = handler /\ life' = life /\ orphan' = orphan
  BY <1>1 DEF OnNameLost
<1>. DEFINE gone == IF H THEN {e \in S : Releases(e)} ELSE Members(p)
<1>5. Withdraw(gone)
  BY <1>1 DEF OnNameLost
<1>6. /\ busUp' = busUp
      /\ owner' \in [Names -> Owners]
      /\ queue' \in [Names -> SUBSET Endpoints]
      /\ \A n \in Names : owner[n] \notin gone => owner'[n] = owner[n]
      /\ \A e \in Endpoints, n \in Names : Claims(e, n)' => Claims(e, n) /\ e \notin gone
  BY <1>5, WithdrawFacts DEF IInv
<1>7. \A e \in Endpoints : e \in gone => own'[e] = "none"
  BY <1>2 DEF H
<1>. HIDE DEF gone
<1>8. l \in {"none", "open", "closing", "closed"}
  BY DEF IInv, TypeOK
<1>9. TypeOK'
  <2>1. /\ own' \in [Endpoints -> {"none", "getting"} \cup Connected]
        /\ ownerId' \in [Endpoints -> BOOLEAN]
        /\ lost' \in [Endpoints -> BOOLEAN]
        /\ timer' \in [Endpoints -> BOOLEAN]
        /\ proxies' \in [Endpoints -> SUBSET Dests]
    BY <1>2 DEF OnNameLost, Unown, ClearProxyCache, SetReconnTimer, IInv, TypeOK
  <2>2. conn' \in [Endpoints -> {"null", "live", "dangling"}]
    BY DEF OnNameLost, DropConn, IInv, TypeOK
  <2>3. link' \in [Procs -> {"none", "open", "closing", "closed"}]
    BY <1>4, <1>8 DEF IInv, TypeOK
  <2>. QED
    BY <1>4, <1>6, <2>1, <2>2, <2>3 DEF IInv, TypeOK
<1>10. \A e \in Endpoints : own'[e] # "none" =>
          link'[ProcOf[e]] = IF ProcOf[e] = p THEN l ELSE link[ProcOf[e]]
  BY <1>2, <1>4 DEF H, IInv, TypeOK
<1>11. ConnUsable'
  <2>1. ASSUME NEW e \in Endpoints, conn'[e] = "live" PROVE link'[ProcOf[e]] # "none"
    BY <2>1, <1>2, <1>3, <1>10 DEF IInv, ConnUsable, Connected
  <2>. QED
    BY <1>2, <1>3, <2>1 DEF IInv, ConnUsable, Connected
<1>12. OneRegistration'
  BY <1>2, <1>4 DEF IInv, OneRegistration
<1>13. RetryArmed'
  BY <1>2, <1>4 DEF IInv, RetryArmed, LifeCycle
<1>14. ProxiesFresh'
  <2> SUFFICES ASSUME NEW e \in Endpoints, proxies'[e] # {}
               PROVE  conn'[e] = "live" /\ link'[ProcOf[e]] \in {"open", "closing"}
    BY DEF ProxiesFresh
  <2>1. e \notin S /\ proxies[e] # {}
    BY <1>2 DEF IInv, ClientProxies
  <2>2. conn[e] = "live" /\ own[e] \in Connected /\ link[ProcOf[e]] \in {"open", "closing"}
    BY <2>1 DEF IInv, ProxiesFresh, ConnUsable
  <2>3. conn'[e] = "live" /\ own'[e] # "none"
    BY <1>2, <1>3, <2>1, <2>2 DEF Connected
  <2>. QED
    BY <1>10, <2>1, <2>2, <2>3
<1>15. NoSilentLoss'
  <2> SUFFICES ASSUME NEW e \in Endpoints, own'[e] \in {"granted", "named"}
               PROVE  owner'[NameOf[e]] = e \/ lost'[e] \/ link'[ProcOf[e]] = "closing"
    BY DEF NoSilentLoss
  <2>1. e \notin S /\ e \notin gone /\ own[e] \in {"granted", "named"}
    BY <1>2, <1>7
  <2>2. CASE owner[NameOf[e]] = e
    BY <1>6, <2>1, <2>2
  <2>3. CASE lost[e]
    BY <1>2, <2>1, <2>3
  <2>4. CASE link[ProcOf[e]] = "closing"
    BY <1>10, <2>1, <2>4 DEF Connected
  <2>. QED
    BY <2>1, <2>2, <2>3, <2>4 DEF IInv, NoSilentLoss
<1>16. LifeCycle'
  BY <1>2, <1>4 DEF IInv, LifeCycle
<1>17. LinkHeld'
  <2> SUFFICES ASSUME NEW q \in Procs, link'[q] # "none"
               PROVE  \E e \in Members(q) : own'[e] # "none"
    BY DEF LinkHeld
  <2>1. CASE q = p
    BY <1>2, <1>4, <2>1, SMTT(20) DEF H, IInv, TypeOK
  <2>2. CASE q # p
    <3>1. PICK e \in Members(q) : own[e] # "none"
      BY <1>4, <2>2 DEF IInv, TypeOK, LinkHeld
    <3>. QED
      BY <1>2, <2>2, <3>1
  <2>. QED
    BY <2>1, <2>2
<1>18. ClosedLinkIdle'
  BY <1>2, <1>10 DEF IInv, ClosedLinkIdle, Connected
<1>19. LostListens'
  BY <1>2 DEF IInv, LostListens
<1>20. ClaimsOpen'
  <2> SUFFICES ASSUME NEW e \in Endpoints, NEW n \in Names, Claims(e, n)'
               PROVE  n = NameOf[e] /\ link'[ProcOf[e]] = "open"
    BY DEF ClaimsOpen
  <2>1. Claims(e, n) /\ e \notin gone /\ n = NameOf[e] /\ link[ProcOf[e]] = "open"
    BY <1>6 DEF IInv, ClaimsOpen
  <2>. QED
    BY <1>4, <2>1 DEF gone, IInv, TypeOK
<1>21. ClientProxies'
  BY <1>2 DEF IInv, ClientProxies
<1>. QED
  BY <1>9, <1>11, <1>12, <1>13, <1>14, <1>15, <1>16, <1>17, <1>18, <1>19, <1>20, <1>21
  DEF IInv

\* The end of a process preserves it, too.
LEMMA VanishInv == ASSUME IInv, NEW p \in Procs, Vanish(p) PROVE IInv'
<1>. USE DEF Members
<1>1. \A e \in Endpoints :
        /\ life'[e] = IF e \in Members(p) THEN "absent" ELSE life[e]
        /\ own'[e] = IF e \in Members(p) THEN "none" ELSE own[e]
        /\ orphan'[e] = (orphan[e] /\ e \notin Members(p))
        /\ ownerId'[e] = (ownerId[e] /\ e \notin Members(p))
        /\ conn'[e] = IF e \in Members(p) THEN "null" ELSE conn[e]
        /\ timer'[e] = (timer[e] /\ e \notin Members(p))
        /\ lost'[e] = (lost[e] /\ e \notin Members(p))
        /\ proxies'[e] = IF e \in Members(p) THEN {} ELSE proxies[e]
  BY DEF Vanish
<1>2. /\ link' = [link EXCEPT ![p] = "none"]
      /\ handler' = [handler EXCEPT ![p] = FALSE]
  BY DEF Vanish
<1>3. Withdraw(Members(p))
  BY DEF Vanish
<1>4. /\ busUp' = busUp
      /\ owner' \in [Names -> Owners]
      /\ queue' \in [Names -> SUBSET Endpoints]
      /\ \A n \in Names : owner[n] \notin Members(p) => owner'[n] = owner[n]
      /\ \A e \in Endpoints, n \in Names :
            Claims(e, n)' => Claims(e, n) /\ e \notin Members(p)
  BY <1>3, WithdrawFacts DEF IInv
<1>5. TypeOK'
  BY <1>2, <1>4 DEF Vanish, IInv, TypeOK
<1>6. ConnUsable' /\ OneRegistration' /\ RetryArmed' /\ ProxiesFresh'
  BY <1>1, <1>2 DEF IInv, TypeOK, ConnUsable, OneRegistration, RetryArmed, ProxiesFresh,
                    Connected
<1>7. NoSilentLoss'
  BY <1>1, <1>2, <1>4, ZenonT(30) DEF IInv, TypeOK, NoSilentLoss
<1>8. LifeCycle' /\ ClosedLinkIdle' /\ LostListens' /\ ClientProxies'
  BY <1>1, <1>2, ZenonT(30) DEF IInv, TypeOK, LifeCycle, ClosedLinkIdle, LostListens, ClientProxies
<1>9. LinkHeld'
  BY <1>1, <1>2 DEF IInv, TypeOK, LinkHeld
<1>10. ClaimsOpen'
  BY <1>2, <1>4 DEF IInv, TypeOK, ClaimsOpen
<1>. QED
  BY <1>5, <1>6, <1>7, <1>8, <1>9, <1>10 DEF IInv

-----------------------------------------------------------------------------
(* The steps.                                                              *)

LEMMA UserInv == ASSUME IInv, NEW e \in Endpoints, User(e) PROVE IInv'
<1>. USE DEF Members, Connected
<1>1. CASE Construct(e)
  <2>1. TypeOK' /\ ConnUsable' /\ OneRegistration' /\ RetryArmed' /\ ProxiesFresh'
    BY <1>1 DEF Construct, daemon, IInv, TypeOK, ConnUsable, OneRegistration,
                RetryArmed, ProxiesFresh, LifeCycle
  <2>2. NoSilentLoss' /\ LifeCycle' /\ LinkHeld' /\ ClosedLinkIdle'
    BY <1>1 DEF Construct, daemon, IInv, TypeOK, NoSilentLoss, LifeCycle, LinkHeld,
                ClosedLinkIdle
  <2>3. LostListens' /\ ClaimsOpen' /\ ClientProxies'
    BY <1>1 DEF Construct, daemon, IInv, LostListens, ClaimsOpen, Claims, ClientProxies
  <2>. QED
    BY <2>1, <2>2, <2>3 DEF IInv
<1>2. CASE Start(e)
  <2>1. own[e] = "none"
    BY <1>2 DEF Start, IInv, LifeCycle
  <2>2. TypeOK' /\ ConnUsable' /\ OneRegistration' /\ RetryArmed' /\ ProxiesFresh'
    BY <1>2, <2>1 DEF Start, OwnName, daemon, IInv, TypeOK, ConnUsable, OneRegistration,
                RetryArmed, ProxiesFresh
  <2>3. NoSilentLoss' /\ LifeCycle' /\ LinkHeld' /\ ClosedLinkIdle'
    BY <1>2, <2>1 DEF Start, OwnName, daemon, IInv, TypeOK, NoSilentLoss, LifeCycle,
                LinkHeld, ClosedLinkIdle
  <2>4. LostListens' /\ ClaimsOpen' /\ ClientProxies'
    BY <1>2, <2>1 DEF Start, OwnName, daemon, IInv, TypeOK, LostListens, ClaimsOpen,
                Claims, ClientProxies
  <2>. QED
    BY <2>2, <2>3, <2>4 DEF IInv
<1>3. ASSUME NEW x \in Dests, CallMethod(e, x) PROVE IInv'
  <2>1. conn[e] = "live" /\ link[ProcOf[e]] = "open" /\ e \in Clients
    BY <1>3 DEF CallMethod, IInv, TypeOK, ConnUsable
  <2>2. TypeOK' /\ ConnUsable' /\ OneRegistration' /\ RetryArmed' /\ ProxiesFresh'
    BY <1>3, <2>1 DEF CallMethod, daemon, IInv, TypeOK, ConnUsable, OneRegistration,
                RetryArmed, ProxiesFresh
  <2>3. NoSilentLoss' /\ LifeCycle' /\ LinkHeld' /\ ClosedLinkIdle'
    BY <1>3 DEF CallMethod, daemon, IInv, NoSilentLoss, LifeCycle, LinkHeld, ClosedLinkIdle
  <2>4. LostListens' /\ ClaimsOpen' /\ ClientProxies'
    BY <1>3, <2>1 DEF CallMethod, daemon, IInv, TypeOK, LostListens, ClaimsOpen, Claims,
                ClientProxies
  <2>. QED
    BY <2>2, <2>3, <2>4 DEF IInv
<1>. QED
  BY <1>1, <1>2, <1>3 DEF User

LEMMA AcquiredInv == ASSUME IInv, NEW e \in Endpoints, OnBusAcquired(e) PROVE IInv'
<1>. USE DEF Members, Connected
<1>1. TypeOK' /\ ConnUsable' /\ OneRegistration' /\ RetryArmed' /\ ProxiesFresh'
  BY DEF OnBusAcquired, daemon, IInv, TypeOK, ConnUsable, OneRegistration, RetryArmed,
         ProxiesFresh
<1>2. NoSilentLoss' /\ LifeCycle' /\ LinkHeld' /\ ClosedLinkIdle'
  BY DEF OnBusAcquired, daemon, IInv, TypeOK, NoSilentLoss, LifeCycle, LinkHeld,
         ClosedLinkIdle
<1>3. LostListens' /\ ClaimsOpen' /\ ClientProxies'
  BY DEF OnBusAcquired, daemon, IInv, TypeOK, LostListens, ClaimsOpen, Claims,
         ClientProxies
<1>. QED
  BY <1>1, <1>2, <1>3 DEF IInv

LEMMA CallbackInv == ASSUME IInv, NEW e \in Endpoints, Callback(e) PROVE IInv'
<1>. USE DEF Members, Connected
<1>1. CASE GetFailed(e) \/ RequestRefused(e) \/ NameLostSignal(e)
  <2>1. OnNameLost(ProcOf[e], {e}, link[ProcOf[e]]) /\ own[e] # "none"
    BY <1>1 DEF GetFailed, RequestRefused, NameLostSignal
  <2>2. ProcOf[e] \in Procs /\ {e} \in SUBSET Members(ProcOf[e])
    OBVIOUS
  <2>. QED
    BY <2>1, <2>2, NameLostInv
<1>2. CASE OnNameAcquired(e)
  <2>1. TypeOK' /\ ConnUsable' /\ OneRegistration' /\ RetryArmed' /\ ProxiesFresh'
    BY <1>2 DEF OnNameAcquired, daemon, IInv, TypeOK, ConnUsable, OneRegistration,
                RetryArmed, ProxiesFresh
  <2>2. NoSilentLoss' /\ LifeCycle' /\ LinkHeld' /\ ClosedLinkIdle'
    BY <1>2 DEF OnNameAcquired, daemon, IInv, TypeOK, NoSilentLoss, LifeCycle, LinkHeld,
                ClosedLinkIdle
  <2>3. LostListens' /\ ClaimsOpen' /\ ClientProxies'
    BY <1>2 DEF OnNameAcquired, daemon, IInv, TypeOK, LostListens, ClaimsOpen, Claims,
                ClientProxies
  <2>. QED
    BY <2>1, <2>2, <2>3 DEF IInv
<1>3. CASE ReconnTimeout(e)
  <2>1. own[e] = "none" /\ life[e] = "started"
    BY <1>3 DEF ReconnTimeout, IInv, RetryArmed
  <2>2. TypeOK' /\ ConnUsable' /\ OneRegistration' /\ RetryArmed' /\ ProxiesFresh'
    BY <1>3, <2>1 DEF ReconnTimeout, OwnName, daemon, IInv, TypeOK, ConnUsable,
                OneRegistration, RetryArmed, ProxiesFresh
  <2>3. NoSilentLoss' /\ LifeCycle' /\ LinkHeld' /\ ClosedLinkIdle'
    BY <1>3, <2>1 DEF ReconnTimeout, OwnName, daemon, IInv, TypeOK, NoSilentLoss,
                LifeCycle, LinkHeld, ClosedLinkIdle
  <2>4. LostListens' /\ ClaimsOpen' /\ ClientProxies'
    BY <1>3, <2>1 DEF ReconnTimeout, OwnName, daemon, IInv, TypeOK, LostListens,
                ClaimsOpen, Claims, ClientProxies
  <2>. QED
    BY <2>2, <2>3, <2>4 DEF IInv
<1>. QED
  BY <1>1, <1>2, <1>3 DEF Callback

\* A name passes to somebody who may have it; the old owner hears of it.
LEMMA TransferFacts ==
    ASSUME IInv, NEW n \in Names, NEW o \in Owners, Transfer(n, o), o # NoOwner
    PROVE  /\ owner' \in [Names -> Owners]
           /\ queue' \in [Names -> SUBSET Endpoints]
           /\ lost' \in [Endpoints -> BOOLEAN]
           /\ \A e \in Endpoints, m \in Names :
                 Claims(e, m)' => Claims(e, m) \/ (m = n /\ e = o)
           /\ \A e \in Endpoints :
                 owner[NameOf[e]] = e /\ own[e] \in {"granted", "named"}
                     => owner'[NameOf[e]] = e \/ lost'[e]
           /\ \A e \in Endpoints : lost[e] => lost'[e]
           /\ \A e \in Endpoints : lost'[e] => lost[e] \/ own[e] \in {"granted", "named"}
           /\ owner'[n] = o
<1>1. /\ owner' = [owner EXCEPT ![n] = o]
      /\ queue' = [queue EXCEPT ![n] = (@ \cup ({owner[n]} \cap Endpoints)) \ {o}]
      /\ lost' = [e \in Endpoints |->
                    lost[e] \/ (e = owner[n] /\ e # o /\ own[e] \in {"granted", "named"})]
  BY DEF Transfer
<1>2. /\ owner' \in [Names -> Owners] /\ owner'[n] = o
      /\ queue' \in [Names -> SUBSET Endpoints]
      /\ lost' \in [Endpoints -> BOOLEAN]
  BY <1>1 DEF IInv, TypeOK
<1>3. ASSUME NEW e \in Endpoints, NEW m \in Names, Claims(e, m)'
      PROVE  Claims(e, m) \/ (m = n /\ e = o)
  BY <1>1, <1>3 DEF Claims, IInv, TypeOK
<1>. QED
  BY <1>1, <1>2, <1>3 DEF IInv, TypeOK

LEMMA DaemonInv == ASSUME IInv, NEW e \in Endpoints, DaemonRequestName(e) PROVE IInv'
<1>. USE DEF Members, Connected
<1>. DEFINE n == NameOf[e]
<1>1. /\ own[e] = "requesting" /\ link[ProcOf[e]] = "open" /\ ~lost[e]
      /\ UNCHANGED <<busUp, handler, link, life, orphan, ownerId, conn, timer, proxies>>
  BY DEF DaemonRequestName, IInv, LostListens
<1>2. /\ \/ own' = [own EXCEPT ![e] = "granted"] /\ (owner'[n] = e)
         \/ own' = [own EXCEPT ![e] = "refused"]
      /\ owner' \in [Names -> Owners]
      /\ queue' \in [Names -> SUBSET Endpoints]
      /\ lost' \in [Endpoints -> BOOLEAN]
      /\ \A f \in Endpoints, m \in Names :
            Claims(f, m)' => Claims(f, m) \/ (m = n /\ f = e)
      /\ \A f \in Endpoints :
            owner[NameOf[f]] = f /\ own[f] \in {"granted", "named"}
                => owner'[NameOf[f]] = f \/ lost'[f]
      /\ \A f \in Endpoints : lost[f] => lost'[f]
      /\ \A f \in Endpoints : lost'[f] => lost[f] \/ own[f] \in {"granted", "named"}
  <2>1. CASE Transfer(n, e) /\ own' = [own EXCEPT ![e] = "granted"]
    <3>1. e \in Owners /\ e # NoOwner
      BY DEF Owners
    <3>. QED
      BY <2>1, <3>1, TransferFacts
  <2>2. CASE /\ queue' = [queue EXCEPT ![n] = @ \cup ({e} \ {owner[n]})]
             /\ own' = [own EXCEPT ![e] = "refused"]
             /\ UNCHANGED <<owner, lost>>
    BY <2>2 DEF Claims, IInv, TypeOK
  <2>. QED
    BY <2>1, <2>2 DEF DaemonRequestName
<1>3. \A f \in Endpoints : f # e => own'[f] = own[f]
  BY <1>2 DEF IInv, TypeOK
<1>4. own'[e] \in {"granted", "refused"} /\ (own'[e] = "granted" => owner'[n] = e)
  BY <1>2 DEF IInv, TypeOK
<1>5. TypeOK'
  BY <1>1, <1>2 DEF IInv, TypeOK
<1>6. ConnUsable' /\ OneRegistration' /\ RetryArmed' /\ ProxiesFresh'
  BY <1>1, <1>3, <1>4 DEF IInv, ConnUsable, OneRegistration, RetryArmed, ProxiesFresh
<1>7. NoSilentLoss'
  <2> SUFFICES ASSUME NEW f \in Endpoints, own'[f] \in {"granted", "named"}
               PROVE  owner'[NameOf[f]] = f \/ lost'[f] \/ link'[ProcOf[f]] = "closing"
    BY DEF NoSilentLoss
  <2>1. CASE f = e
    BY <1>4, <2>1
  <2>2. CASE f # e
    BY <1>1, <1>2, <1>3, <2>2 DEF IInv, NoSilentLoss
  <2>. QED
    BY <2>1, <2>2
<1>8. LifeCycle' /\ ClosedLinkIdle' /\ ClientProxies'
  BY <1>1, <1>3, <1>4 DEF IInv, LifeCycle, ClosedLinkIdle, ClientProxies
<1>9. LinkHeld'
  BY <1>1, <1>3, <1>4 DEF IInv, LinkHeld
<1>10. LostListens'
  BY <1>1, <1>2, <1>3 DEF IInv, LostListens
<1>11. ClaimsOpen'
  BY <1>1, <1>2 DEF IInv, ClaimsOpen
<1>. QED
  BY <1>5, <1>6, <1>7, <1>8, <1>9, <1>10, <1>11 DEF IInv

LEMMA ProcessInv ==
    ASSUME IInv, NEW p \in Procs, BusConnect(p) \/ OnClosed(p) \/ ProcEnd(p)
    PROVE  IInv'
<1>. USE DEF Members, Connected
<1>1. CASE BusConnect(p)
  <2>1. TypeOK' /\ ConnUsable' /\ OneRegistration' /\ RetryArmed' /\ ProxiesFresh'
    BY <1>1 DEF BusConnect, daemon, IInv, TypeOK, ConnUsable, OneRegistration, RetryArmed,
                ProxiesFresh
  <2>2. NoSilentLoss' /\ LifeCycle' /\ LinkHeld' /\ ClosedLinkIdle'
    BY <1>1 DEF BusConnect, daemon, IInv, TypeOK, NoSilentLoss, LifeCycle, LinkHeld,
                ClosedLinkIdle
  <2>3. LostListens' /\ ClaimsOpen' /\ ClientProxies'
    BY <1>1 DEF BusConnect, daemon, IInv, TypeOK, LostListens, ClaimsOpen, Claims,
                ClientProxies
  <2>. QED
    BY <2>1, <2>2, <2>3 DEF IInv
<1>2. CASE OnClosed(p)
  <2>1. handler[p]
    BY <1>2 DEF OnClosed, IInv, LinkHeld, LifeCycle
  <2>. DEFINE S == {e \in Members(p) : own[e] \in Connected}
  <2>2. OnNameLost(p, S, "closed") /\ link[p] = "closing"
    BY <1>2, <2>1 DEF OnClosed
  <2>3. S \in SUBSET Members(p) /\ \A e \in S : own[e] # "none"
    OBVIOUS
  <2>. QED
    BY <2>2, <2>3, NameLostInv
<1>3. CASE ProcEnd(p)
  BY <1>3, VanishInv DEF ProcEnd
<1>. QED
  BY <1>1, <1>2, <1>3

LEMMA EnvInv == ASSUME IInv, Env PROVE IInv'
<1>. USE DEF Members, Connected
<1>1. CASE BusUp
  <2>1. TypeOK' /\ ConnUsable' /\ OneRegistration' /\ RetryArmed' /\ ProxiesFresh'
    BY <1>1 DEF BusUp, IInv, TypeOK, ConnUsable, OneRegistration, RetryArmed, ProxiesFresh
  <2>2. NoSilentLoss' /\ LifeCycle' /\ LinkHeld' /\ ClosedLinkIdle'
    BY <1>1 DEF BusUp, IInv, NoSilentLoss, LifeCycle, LinkHeld, ClosedLinkIdle
  <2>3. LostListens' /\ ClaimsOpen' /\ ClientProxies'
    BY <1>1 DEF BusUp, IInv, LostListens, ClaimsOpen, Claims, ClientProxies
  <2>. QED
    BY <2>1, <2>2, <2>3 DEF IInv
<1>2. CASE BusDown
  <2>1. TypeOK' /\ ConnUsable' /\ OneRegistration' /\ RetryArmed' /\ ProxiesFresh'
    BY <1>2, ZenonT(30) DEF BusDown, IInv, TypeOK, ConnUsable, OneRegistration, RetryArmed,
                ProxiesFresh, Owners
  <2>2. NoSilentLoss'
    <3> SUFFICES ASSUME NEW e \in Endpoints, own[e] \in {"granted", "named"}
                 PROVE  link'[ProcOf[e]] = "closing"
      BY <1>2 DEF BusDown, NoSilentLoss
    <3>1. link[ProcOf[e]] \in {"open", "closing"}
      BY DEF IInv, TypeOK, ConnUsable, ClosedLinkIdle
    <3>. QED
      BY <1>2, <3>1 DEF BusDown
  <2>3. LifeCycle' /\ LinkHeld' /\ ClosedLinkIdle'
    BY <1>2 DEF BusDown, IInv, TypeOK, LifeCycle, LinkHeld, ClosedLinkIdle
  <2>4. LostListens' /\ ClaimsOpen' /\ ClientProxies'
    BY <1>2 DEF BusDown, IInv, TypeOK, LostListens, ClaimsOpen, Claims, ClientProxies
  <2>. QED
    BY <2>1, <2>2, <2>3, <2>4 DEF IInv
<1>3. ASSUME NEW n \in Names, ForeignTake(n) PROVE IInv'
  <2>1. /\ owner' \in [Names -> Owners]
        /\ queue' \in [Names -> SUBSET Endpoints]
        /\ lost' \in [Endpoints -> BOOLEAN]
        /\ \A e \in Endpoints, m \in Names : Claims(e, m)' => Claims(e, m)
        /\ \A e \in Endpoints :
              owner[NameOf[e]] = e /\ own[e] \in {"granted", "named"}
                  => owner'[NameOf[e]] = e \/ lost'[e]
        /\ \A e \in Endpoints : lost[e] => lost'[e]
        /\ \A e \in Endpoints : lost'[e] => lost[e] \/ own[e] \in {"granted", "named"}
    <3>1. Transfer(n, Foreign) /\ Foreign \in Owners
      BY <1>3 DEF ForeignTake, Owners
    <3>2. CASE Foreign # NoOwner
      BY <3>1, <3>2, TransferFacts
    <3>3. CASE Foreign = NoOwner
      BY <3>1, <3>3 DEF Transfer, Claims, IInv, TypeOK
    <3>. QED
      BY <3>2, <3>3
  <2>2. UNCHANGED <<busUp, handler, link, life, own, orphan, ownerId, conn, timer, proxies>>
    BY <1>3 DEF ForeignTake
  <2>3. TypeOK' /\ ConnUsable' /\ OneRegistration' /\ RetryArmed' /\ ProxiesFresh'
    BY <2>1, <2>2 DEF IInv, TypeOK, ConnUsable, OneRegistration, RetryArmed, ProxiesFresh
  <2>4. NoSilentLoss' /\ LifeCycle' /\ LinkHeld' /\ ClosedLinkIdle'
    BY <2>1, <2>2 DEF IInv, NoSilentLoss, LifeCycle, LinkHeld, ClosedLinkIdle
  <2>5. LostListens' /\ ClaimsOpen' /\ ClientProxies'
    BY <2>1, <2>2 DEF IInv, LostListens, ClaimsOpen, ClientProxies
  <2>. QED
    BY <2>3, <2>4, <2>5 DEF IInv
<1>4. ASSUME NEW n \in Names, ForeignRelease(n) PROVE IInv'
  <2>1. UNCHANGED <<busUp, handler, link, life, own, orphan, ownerId, conn, timer, lost,
                    proxies>>
    BY <1>4 DEF ForeignRelease
  <2>2. /\ owner' \in [Names -> Owners]
        /\ queue' \in [Names -> SUBSET Endpoints]
        /\ \A m \in Names \ {n} : owner'[m] = owner[m]
        /\ owner'[n] \in queue[n] \/ owner'[n] = NoOwner
        /\ \A m \in Names : queue'[m] \subseteq queue[m]
    BY <1>4 DEF ForeignRelease, IInv, TypeOK, Owners
  <2>3. \A e \in Endpoints, m \in Names : Claims(e, m)' => Claims(e, m)
    BY <2>2 DEF Claims
  <2>4. \A e \in Endpoints : owner[NameOf[e]] = e => owner'[NameOf[e]] = e
    BY <1>4, <2>2 DEF ForeignRelease
  <2>5. TypeOK' /\ ConnUsable' /\ OneRegistration' /\ RetryArmed' /\ ProxiesFresh'
    BY <2>1, <2>2 DEF IInv, TypeOK, ConnUsable, OneRegistration, RetryArmed, ProxiesFresh
  <2>6. NoSilentLoss' /\ LifeCycle' /\ LinkHeld' /\ ClosedLinkIdle'
    BY <2>1, <2>4 DEF IInv, NoSilentLoss, LifeCycle, LinkHeld, ClosedLinkIdle
  <2>7. LostListens' /\ ClaimsOpen' /\ ClientProxies'
    BY <2>1, <2>3 DEF IInv, LostListens, ClaimsOpen, ClientProxies
  <2>. QED
    BY <2>5, <2>6, <2>7 DEF IInv
<1>5. ASSUME NEW p \in Procs, ProcEnd(p) PROVE IInv'
  BY <1>5, ProcessInv
<1>. QED
  BY <1>1, <1>2, <1>3, <1>4, <1>5 DEF Env

LEMMA InitInv == Init => IInv
<1> SUFFICES ASSUME Init PROVE IInv
  OBVIOUS
<1>1. TypeOK /\ ConnUsable /\ OneRegistration /\ RetryArmed /\ ProxiesFresh
  BY DEF Init, TypeOK, ConnUsable, OneRegistration, RetryArmed, ProxiesFresh, Owners,
         Connected
<1>2. NoSilentLoss /\ LifeCycle /\ LinkHeld /\ ClosedLinkIdle
  BY DEF Init, NoSilentLoss, LifeCycle, LinkHeld, ClosedLinkIdle
<1>3. LostListens /\ ClaimsOpen /\ ClientProxies
  BY DEF Init, LostListens, ClaimsOpen, Claims, ClientProxies
<1>. QED
  BY <1>1, <1>2, <1>3 DEF IInv

LEMMA StepInv == IInv /\ [Next]_vars => IInv'
<1> SUFFICES ASSUME IInv, [Next]_vars PROVE IInv'
  OBVIOUS
<1>1. CASE UNCHANGED vars
  <2>1. TypeOK' /\ ConnUsable' /\ OneRegistration' /\ RetryArmed' /\ ProxiesFresh'
    BY <1>1 DEF vars, IInv, TypeOK, ConnUsable, OneRegistration, RetryArmed, ProxiesFresh
  <2>2. NoSilentLoss' /\ LifeCycle' /\ LinkHeld' /\ ClosedLinkIdle'
    BY <1>1 DEF vars, IInv, NoSilentLoss, LifeCycle, LinkHeld, ClosedLinkIdle
  <2>3. LostListens' /\ ClaimsOpen' /\ ClientProxies'
    BY <1>1 DEF vars, IInv, LostListens, ClaimsOpen, Claims, ClientProxies
  <2>. QED
    BY <2>1, <2>2, <2>3 DEF IInv
<1>2. ASSUME NEW e \in Endpoints,
             User(e) \/ Callback(e) \/ DaemonRequestName(e) \/ OnBusAcquired(e)
      PROVE  IInv'
  BY <1>2, UserInv, CallbackInv, DaemonInv, AcquiredInv
<1>3. ASSUME NEW p \in Procs, BusConnect(p) \/ OnClosed(p) PROVE IInv'
  BY <1>3, ProcessInv
<1>4. CASE Env
  BY <1>4, EnvInv
<1>. QED
  BY <1>1, <1>2, <1>3, <1>4 DEF Next, Others

LEMMA Invariance == Spec => []IInv
  BY InitInv, StepInv, PTL DEF Spec

-----------------------------------------------------------------------------
(* The theorems.                                                           *)

\* Every variable keeps its type in every run.
THEOREM TypeCorrect == Spec => []TypeOK
  BY Invariance, PTL DEF IInv

\* conn_ is set exactly while the endpoint has the connection, which exists.
THEOREM ConnAlwaysUsable == Spec => []ConnUsable
  BY Invariance, PTL DEF IInv

\* A started endpoint always has a registration or its timer, never both.
THEOREM AlwaysRetries == Spec => [](OneRegistration /\ RetryArmed)
  BY Invariance, PTL DEF IInv

\* No cached proxy outlives its connection.
THEOREM ProxiesAlwaysFresh == Spec => []ProxiesFresh
  BY Invariance, PTL DEF IInv

\* An endpoint that loses its name is told, or about to be.
THEOREM LossAlwaysTold == Spec => []NoSilentLoss
  BY Invariance, PTL DEF IInv

\* A process with endpoints outlives the loss of the bus.
THEOREM SurvivesBusLoss == Spec => BusLossSurvived
<1>1. IInv => \A p \in Procs : OnClosed(p) => \A e \in Members(p) : life'[e] = life[e]
  <2> SUFFICES ASSUME IInv, NEW p \in Procs, OnClosed(p) PROVE life' = life
    OBVIOUS
  <2>1. handler[p]
    BY DEF OnClosed, Members, IInv, LinkHeld, LifeCycle
  <2>. QED
    BY <2>1 DEF OnClosed, OnNameLost
<1>2. IInv /\ [Next]_vars =>
        [\A p \in Procs : OnClosed(p) => \A e \in Members(p) : life'[e] = life[e]]_vars
  BY <1>1
<1>. QED
  BY <1>2, Invariance, PTL DEF Spec, BusLossSurvived

-----------------------------------------------------------------------------
(* No claim is left behind.                                                *)

LEMMA GhostNameLost ==
    ASSUME IInv, NoGhostClaim, NEW p \in Procs, NEW S \in SUBSET Members(p), NEW l,
           \A e \in S : own[e] # "none",
           \A e \in S : Held(p) => Releases(e) \/ \A n \in Names : ~Claims(e, n),
           OnNameLost(p, S, l)
    PROVE  NoGhostClaim'
<1>. DEFINE gone == IF Held(p) THEN {e \in S : Releases(e)} ELSE Members(p)
<1>1. \A e \in Endpoints, n \in Names :
         /\ Claims(e, n)' => Claims(e, n) /\ e \notin gone
         /\ e \in queue'[n] => e \in queue[n]
  <2>1. Withdraw(gone)
    BY DEF OnNameLost
  <2>. HIDE DEF gone
  <2>. QED
    BY <2>1, WithdrawFacts DEF IInv
<1>2. \A e \in Endpoints : e \notin S => own'[e] = own[e] /\ lost'[e] = lost[e]
  BY DEF OnNameLost, Unown, IInv, OneRegistration, TypeOK
<1>3. ASSUME NEW e \in Endpoints, Claims(e, NameOf[e])' PROVE e \notin S
  BY <1>1, <1>3
<1>4. ASSUME NEW e \in Endpoints, Claims(e, NameOf[e])
      PROVE  own[e] \in {"granted", "refused", "named"}
  BY <1>4 DEF Claims, NoGhostClaim, IInv, LostListens
<1>. QED
  BY <1>1, <1>2, <1>3, <1>4 DEF NoGhostClaim, Claims

LEMMA GhostStep == Tidy /\ IInv /\ NoGhostClaim /\ [Next]_vars => NoGhostClaim'
<1> SUFFICES ASSUME Tidy, IInv, NoGhostClaim, [Next]_vars PROVE NoGhostClaim'
  OBVIOUS
<1>. USE DEF Members, Connected
<1>1. CASE UNCHANGED vars
  BY <1>1 DEF vars, NoGhostClaim
<1>2. ASSUME NEW e \in Endpoints, User(e) \/ OnBusAcquired(e) \/ OnNameAcquired(e)
                                   \/ ReconnTimeout(e)
      PROVE  NoGhostClaim'
  <2>1. UNCHANGED <<owner, queue, lost>>
    BY <1>2 DEF User, Construct, Start, CallMethod, OnBusAcquired, OnNameAcquired,
                ReconnTimeout, daemon
  <2>2. own[e] \in {"none", "getting", "granted"} \/ own' = own
    BY <1>2 DEF User, Construct, Start, CallMethod, OnBusAcquired, OnNameAcquired,
                ReconnTimeout, IInv, LifeCycle, RetryArmed
  <2>3. \A f \in Endpoints : own'[f] = own[f] \/ (f = e /\ own'[e] = "named")
                             \/ (f = e /\ own[e] \in {"none", "getting"})
    BY <1>2, <2>2 DEF User, Construct, Start, CallMethod, OnBusAcquired, OnNameAcquired,
                ReconnTimeout, OwnName, IInv, TypeOK, LifeCycle, RetryArmed
  <2>. QED
    BY <2>1, <2>2, <2>3 DEF NoGhostClaim, IInv, LostListens
<1>3. ASSUME NEW e \in Endpoints,
             GetFailed(e) \/ RequestRefused(e) \/ NameLostSignal(e)
      PROVE  NoGhostClaim'
  <2>. DEFINE p == ProcOf[e]
  <2>1. OnNameLost(p, {e}, link[p]) /\ own[e] # "none" /\ {e} \in SUBSET Members(p)
    BY <1>3 DEF GetFailed, RequestRefused, NameLostSignal
  <2>2. ASSUME Held(p), NEW n \in Names, Claims(e, n) PROVE Releases(e)
    <3>1. link[p] = "open" /\ n = NameOf[e] /\ own[e] \in {"refused", "named", "granted"}
      BY <2>2 DEF IInv, ClaimsOpen, NoGhostClaim, Claims, LostListens
    <3>2. ownerId[e]
      BY <2>1 DEF IInv, OneRegistration
    <3>3. CASE ReleaseOnQueued
      BY <3>1, <3>2, <3>3 DEF Releases
    <3>4. CASE \A f, g \in Endpoints : ProcOf[f] = ProcOf[g] => f = g
      <4>1. ~ \E f \in Members(p) \ {e} : own[f] # "none"
        BY <3>4
      <4>2. ~Held(p)
        BY <2>1, <4>1, HeldByOthers DEF OnNameLost
      <4>. QED
        BY <2>2, <4>2
    <3>. QED
      BY <3>3, <3>4 DEF Tidy
  <2>. QED
    BY <2>1, <2>2, GhostNameLost
<1>4. ASSUME NEW e \in Endpoints, DaemonRequestName(e) PROVE NoGhostClaim'
  <2>. DEFINE n == NameOf[e]
  <2>1. own[e] = "requesting" /\ ~lost[e]
    BY <1>4 DEF DaemonRequestName, IInv, LostListens
  <2>2. owner[n] # e /\ e \notin queue[n]
    BY <2>1 DEF NoGhostClaim
  <2>3. CASE Transfer(n, e) /\ own' = [own EXCEPT ![e] = "granted"]
    <3>1. \A f \in Endpoints : f # e => own'[f] = own[f]
      BY <2>3 DEF IInv, TypeOK
    <3>2. own'[e] = "granted" /\ owner'[n] = e /\ e \notin queue'[n]
      BY <2>3 DEF Transfer, IInv, TypeOK
    <3>3. ASSUME NEW f \in Endpoints, f # e
          PROVE  /\ owner'[NameOf[f]] = f => owner[NameOf[f]] = f
                 /\ f \in queue'[NameOf[f]] =>
                       \/ f \in queue[NameOf[f]]
                       \/ owner[NameOf[f]] = f /\ NameOf[f] = n
                 /\ lost[f] => lost'[f]
                 /\ owner[n] = f /\ own[f] \in {"granted", "named"} => lost'[f]
      BY <2>3, <3>3 DEF Transfer, IInv, TypeOK
    <3>. QED
      BY <3>1, <3>2, <3>3 DEF NoGhostClaim
  <2>4. CASE /\ queue' = [queue EXCEPT ![n] = @ \cup ({e} \ {owner[n]})]
             /\ own' = [own EXCEPT ![e] = "refused"]
             /\ UNCHANGED <<owner, lost>>
    BY <2>4 DEF NoGhostClaim, IInv, TypeOK
  <2>. QED
    BY <1>4, <2>3, <2>4 DEF DaemonRequestName
<1>5. ASSUME NEW p \in Procs, BusConnect(p) PROVE NoGhostClaim'
  BY <1>5 DEF BusConnect, daemon, NoGhostClaim
<1>6. ASSUME NEW p \in Procs, OnClosed(p) PROVE NoGhostClaim'
  <2>. DEFINE S == {e \in Members(p) : own[e] \in Connected}
  <2>1. handler[p]
    BY <1>6 DEF OnClosed, IInv, LinkHeld, LifeCycle
  <2>2. OnNameLost(p, S, "closed") /\ link[p] = "closing"
    BY <1>6, <2>1 DEF OnClosed
  <2>3. S \in SUBSET Members(p) /\ \A e \in S : own[e] # "none"
    OBVIOUS
  <2>4. \A e \in S, n \in Names : ~Claims(e, n)
    BY <2>2 DEF IInv, ClaimsOpen
  <2>. QED
    BY <2>2, <2>3, <2>4, GhostNameLost
<1>7. CASE BusUp
  BY <1>7 DEF BusUp, NoGhostClaim
<1>8. CASE BusDown
  BY <1>8 DEF BusDown, NoGhostClaim
<1>9. ASSUME NEW n \in Names, ForeignTake(n) PROVE NoGhostClaim'
  <2>1. Transfer(n, Foreign) /\ own' = own
    BY <1>9 DEF ForeignTake
  <2>2. ASSUME NEW f \in Endpoints
        PROVE  /\ owner'[NameOf[f]] = f => owner[NameOf[f]] = f
               /\ f \in queue'[NameOf[f]] =>
                     f \in queue[NameOf[f]] \/ (owner[NameOf[f]] = f /\ NameOf[f] = n)
               /\ lost[f] => lost'[f]
               /\ owner[n] = f /\ own[f] \in {"granted", "named"} => lost'[f]
    BY <2>1 DEF Transfer, IInv, TypeOK
  <2>. QED
    BY <2>1, <2>2 DEF NoGhostClaim
<1>10. ASSUME NEW n \in Names, ForeignRelease(n) PROVE NoGhostClaim'
  <2>1. own' = own /\ lost' = lost
    BY <1>10 DEF ForeignRelease
  <2>2. /\ \A m \in Names \ {n} : owner'[m] = owner[m]
        /\ owner'[n] \in queue[n] \/ owner'[n] = NoOwner
        /\ \A m \in Names : queue'[m] \subseteq queue[m]
    BY <1>10 DEF ForeignRelease, IInv, TypeOK, Owners
  <2>. QED
    BY <2>1, <2>2 DEF NoGhostClaim, IInv, LostListens
<1>11. ASSUME NEW p \in Procs, ProcEnd(p) PROVE NoGhostClaim'
  <2>1. Vanish(p)
    BY <1>11 DEF ProcEnd
  <2>2. \A e \in Endpoints, n \in Names :
           /\ Claims(e, n)' => Claims(e, n) /\ e \notin Members(p)
           /\ e \in queue'[n] => e \in queue[n]
    BY <2>1, WithdrawFacts DEF Vanish, IInv
  <2>3. \A e \in Endpoints : e \notin Members(p) => own'[e] = own[e] /\ lost'[e] = lost[e]
    BY <2>1 DEF Vanish, IInv, TypeOK
  <2>. QED
    BY <2>2, <2>3 DEF NoGhostClaim, Claims, IInv, LostListens
<1>. QED
  BY <1>1, <1>2, <1>3, <1>4, <1>5, <1>6, <1>7, <1>8, <1>9, <1>10, <1>11
  DEF Next, Others, Callback, Env

\* In a tidy deployment the daemon never holds a claim its endpoint gave up:
\* no name is given to an endpoint that does not know.
THEOREM NoClaimLeftBehind == ASSUME Tidy PROVE Spec => []NoGhostClaim
<1>1. Init => NoGhostClaim
  BY DEF Init, NoGhostClaim
<1>2. IInv /\ NoGhostClaim /\ [Next]_vars => NoGhostClaim'
  BY GhostStep
<1>. QED
  BY <1>1, <1>2, Invariance, PTL DEF Spec

-----------------------------------------------------------------------------
(* The endpoints implement EndpointSession.                                *)

\* Losing the name, alone or with the connection, is losing the session.
LEMMA NameLostLoses ==
    ASSUME IInv, NEW p \in Procs, NEW S \in SUBSET Members(p), NEW l,
           \A e \in S : own[e] # "none",
           OnNameLost(p, S, l), Unown(S), ClearProxyCache(S)
    PROVE  Session!Lose(S)
<1>. USE DEF Members
<1>1. \A e \in Endpoints : own'[e] = IF e \in S THEN "none" ELSE own[e]
  BY DEF Unown, IInv, OneRegistration
<1>2. \A e \in S : life[e] = "started"
  BY DEF IInv, LifeCycle
<1>3. life' = life
  BY DEF OnNameLost
<1>4. \A e \in S : phaseOf(e) \in {"joining", "online"} /\ phaseOf(e)' = "backoff"
  BY <1>1, <1>2, <1>3 DEF phaseOf
<1>5. \A e \in Endpoints : e \notin S => phaseOf(e)' = phaseOf(e)
  BY <1>1, <1>3 DEF phaseOf
<1>6. \A e \in Endpoints : (conn'[e] # "null") = (conn[e] # "null" /\ e \notin S)
  BY DEF OnNameLost, DropConn
<1>. QED
  BY <1>4, <1>5, <1>6 DEF Session!Lose, Session!Leave

LEMMA SessionStep ==
    IInv /\ [Next]_vars => [Session!SessionNext]_(Session!sessions)
<1> SUFFICES ASSUME IInv, [Next]_vars
             PROVE  [Session!SessionNext]_(Session!sessions)
  OBVIOUS
<1>. USE DEF Members
<1>0. ASSUME life' = life, conn' = conn,
             \A e \in Endpoints : phaseOf(e)' = phaseOf(e)
      PROVE  UNCHANGED Session!sessions
  BY <1>0 DEF Session!sessions
<1>1. CASE UNCHANGED vars
  BY <1>0, <1>1 DEF vars, phaseOf
<1>2. ASSUME NEW e \in Endpoints, Construct(e) PROVE Session!Build(e)
  <2>1. /\ life' = [life EXCEPT ![e] = "built"] /\ conn' = conn /\ own' = own
        /\ life[e] = "absent"
    BY <1>2 DEF Construct
  <2>2. phaseOf(e) = "absent" /\ phaseOf(e)' = "built"
    BY <2>1 DEF phaseOf, IInv, TypeOK
  <2>3. \A f \in Endpoints \ {e} : phaseOf(f)' = phaseOf(f)
    BY <2>1 DEF phaseOf, IInv, TypeOK
  <2>4. [f \in Endpoints |-> phaseOf(f)]' = [[f \in Endpoints |-> phaseOf(f)] EXCEPT ![e] = "built"]
    BY <2>2, <2>3
  <2>. QED
    BY <2>1, <2>2, <2>4 DEF Session!Build, Session!Move
<1>3. ASSUME NEW e \in Endpoints, Start(e) PROVE Session!Join(e)
  <2>1. /\ life' = [life EXCEPT ![e] = "started"] /\ conn' = conn
        /\ own' = [own EXCEPT ![e] = "getting"] /\ life[e] = "built"
    BY <1>3 DEF Start, OwnName
  <2>2. phaseOf(e) = "built" /\ phaseOf(e)' = "joining"
    BY <2>1 DEF phaseOf, IInv, TypeOK
  <2>3. \A f \in Endpoints \ {e} : phaseOf(f)' = phaseOf(f)
    BY <2>1 DEF phaseOf, IInv, TypeOK
  <2>4. [f \in Endpoints |-> phaseOf(f)]' = [[f \in Endpoints |-> phaseOf(f)] EXCEPT ![e] = "joining"]
    BY <2>2, <2>3
  <2>. QED
    BY <2>1, <2>2, <2>4 DEF Session!Join, Session!Move
<1>4. ASSUME NEW e \in Endpoints, NEW x \in Dests, CallMethod(e, x)
      PROVE  UNCHANGED Session!sessions
  BY <1>0, <1>4 DEF CallMethod, phaseOf
<1>5. ASSUME NEW e \in Endpoints, GetFailed(e) \/ RequestRefused(e) \/ NameLostSignal(e)
      PROVE  Session!Lose({e})
  <2>1. OnNameLost(ProcOf[e], {e}, link[ProcOf[e]]) /\ own[e] # "none"
    BY <1>5 DEF GetFailed, RequestRefused, NameLostSignal
  <2>2. ProcOf[e] \in Procs /\ {e} \in SUBSET Members(ProcOf[e])
    OBVIOUS
  <2>. QED
    BY <2>1, <2>2, NameLostLoses DEF OnNameLost
<1>6. ASSUME NEW e \in Endpoints, OnBusAcquired(e) PROVE Session!Acquire(e)
  <2>1. /\ life' = life /\ conn' = [conn EXCEPT ![e] = "live"]
        /\ own' = [own EXCEPT ![e] = "requesting"] /\ own[e] = "getting"
    BY <1>6 DEF OnBusAcquired
  <2>2. phaseOf(e) = "joining" /\ phaseOf(e)' = "joining"
    BY <2>1 DEF phaseOf, IInv, TypeOK, LifeCycle
  <2>3. \A f \in Endpoints \ {e} : phaseOf(f)' = phaseOf(f)
    BY <2>1 DEF phaseOf, IInv, TypeOK
  <2>4. [f \in Endpoints |-> conn[f] # "null"]'
            = [[f \in Endpoints |-> conn[f] # "null"] EXCEPT ![e] = TRUE]
    BY <2>1 DEF IInv, TypeOK
  <2>. QED
    BY <2>2, <2>3, <2>4 DEF Session!Acquire
<1>7. ASSUME NEW e \in Endpoints, OnNameAcquired(e) PROVE Session!Enter(e)
  <2>1. /\ life' = life /\ conn' = conn
        /\ own' = [own EXCEPT ![e] = "named"] /\ own[e] = "granted"
    BY <1>7 DEF OnNameAcquired
  <2>2. phaseOf(e) = "joining" /\ phaseOf(e)' = "online" /\ conn[e] # "null"
    BY <2>1 DEF phaseOf, IInv, TypeOK, LifeCycle, ConnUsable, Connected
  <2>3. \A f \in Endpoints \ {e} : phaseOf(f)' = phaseOf(f)
    BY <2>1 DEF phaseOf, IInv, TypeOK
  <2>. QED
    BY <2>1, <2>2, <2>3 DEF Session!Enter, Session!Move
<1>8. ASSUME NEW e \in Endpoints, ReconnTimeout(e) PROVE Session!Retry(e)
  <2>1. /\ life' = life /\ conn' = conn
        /\ own' = [own EXCEPT ![e] = "getting"] /\ own[e] = "none" /\ life[e] = "started"
    BY <1>8 DEF ReconnTimeout, OwnName, IInv, RetryArmed
  <2>2. phaseOf(e) = "backoff" /\ phaseOf(e)' = "joining"
    BY <2>1 DEF phaseOf, IInv, TypeOK
  <2>3. \A f \in Endpoints \ {e} : phaseOf(f)' = phaseOf(f)
    BY <2>1 DEF phaseOf, IInv, TypeOK
  <2>. QED
    BY <2>1, <2>2, <2>3 DEF Session!Retry, Session!Move
<1>9. ASSUME NEW e \in Endpoints, DaemonRequestName(e)
      PROVE  UNCHANGED Session!sessions
  <2>1. /\ life' = life /\ conn' = conn /\ own[e] = "requesting"
        /\ \/ own' = [own EXCEPT ![e] = "granted"]
           \/ own' = [own EXCEPT ![e] = "refused"]
    BY <1>9 DEF DaemonRequestName
  <2>2. \A f \in Endpoints : phaseOf(f)' = phaseOf(f)
    BY <2>1 DEF phaseOf, IInv, TypeOK
  <2>. QED
    BY <1>0, <2>1, <2>2
<1>10. ASSUME NEW p \in Procs, BusConnect(p) PROVE UNCHANGED Session!sessions
  BY <1>0, <1>10 DEF BusConnect, phaseOf
<1>11. ASSUME NEW p \in Procs, OnClosed(p) PROVE \E S \in SUBSET Endpoints : Session!Lose(S)
  <2>. DEFINE S == {e \in Members(p) : own[e] \in Connected}
  <2>1. handler[p]
    BY <1>11 DEF OnClosed, IInv, LinkHeld, LifeCycle
  <2>2. OnNameLost(p, S, "closed")
    BY <1>11, <2>1 DEF OnClosed
  <2>3. S \in SUBSET Members(p) /\ S \in SUBSET Endpoints /\ \A e \in S : own[e] # "none"
    BY DEF Connected
  <2>. HIDE DEF S
  <2>. QED
    BY <2>2, <2>3, NameLostLoses DEF OnNameLost
<1>12. ASSUME NEW p \in Procs, ProcEnd(p)
       PROVE  \E S \in SUBSET Endpoints : Session!Leave(S, "absent")
  <2>1. Vanish(p)
    BY <1>12 DEF ProcEnd
  <2>2. \A e \in Endpoints : phaseOf(e)' = IF e \in Members(p) THEN "absent" ELSE phaseOf(e)
    <3>1. \A e \in Endpoints :
             /\ life'[e] = IF e \in Members(p) THEN "absent" ELSE life[e]
             /\ own'[e] = IF e \in Members(p) THEN "none" ELSE own[e]
      BY <2>1 DEF Vanish
    <3>. HIDE DEF Members
    <3>. QED
      BY <3>1 DEF phaseOf
  <2>3. \A e \in Endpoints : (conn'[e] # "null") = (conn[e] # "null" /\ e \notin Members(p))
    BY <2>1 DEF Vanish
  <2>4. Session!Leave(Members(p), "absent")
    BY <2>2, <2>3 DEF Session!Leave
  <2>5. Members(p) \in SUBSET Endpoints
    OBVIOUS
  <2>. QED
    BY <2>4, <2>5
<1>13. CASE BusDown \/ BusUp \/ \E n \in Names : ForeignTake(n) \/ ForeignRelease(n)
  BY <1>0, <1>13 DEF BusDown, BusUp, ForeignTake, ForeignRelease, phaseOf
<1>14. ASSUME NEW e \in Endpoints,
              User(e) \/ Callback(e) \/ DaemonRequestName(e) \/ OnBusAcquired(e)
       PROVE  [Session!SessionNext]_(Session!sessions)
  <2>1. {e} \in SUBSET Endpoints
    OBVIOUS
  <2>. QED
    BY <1>2, <1>3, <1>4, <1>5, <1>6, <1>7, <1>8, <1>9, <1>14, <2>1
    DEF User, Callback, Session!SessionNext
<1>15. ASSUME NEW p \in Procs, BusConnect(p) \/ OnClosed(p) \/ ProcEnd(p)
       PROVE  [Session!SessionNext]_(Session!sessions)
  BY <1>10, <1>11, <1>12, <1>15 DEF Session!SessionNext
<1>. QED
  BY <1>1, <1>13, <1>14, <1>15 DEF Next, Others, Env

\* Whatever the bus, the other programs and the users do, every endpoint
\* goes through its abstract session (the liveness half is model-checked).
THEOREM ImplementsSessionSteps == Spec => Session!SessionSpec
<1>1. Init => Session!SessionInit
  <2> SUFFICES ASSUME Init PROVE Session!SessionInit
    OBVIOUS
  <2>1. \A e \in Endpoints : phaseOf(e) = "absent" /\ ~(conn[e] # "null")
    BY DEF Init, phaseOf
  <2>. QED
    BY <2>1 DEF Session!SessionInit
<1>. QED
  BY <1>1, SessionStep, Invariance, PTL DEF Spec, Session!SessionSpec

-----------------------------------------------------------------------------
(* The servers and clients on their connections.                           *)

\* The deployments of the programs: no two servers, or no two endpoints at
\* all, in one process.
OneServer == \A e, f \in Servers : ProcOf[e] = ProcOf[f] => e = f
Alone     == \A e, f \in Endpoints : ProcOf[e] = ProcOf[f] => e = f

\* What is exported is on a connection that exists, by a started server of
\* its process that has it in its registry.
ExportsLinked ==
    \A p \in Procs, i \in Ifaces : exported[p][i] # NoOwner =>
        LET e == exported[p][i] IN
        /\ link[p] # "none"
        /\ e \in Servers /\ ProcOf[e] = p
        /\ life[e] = "started"
        /\ i \in lut[e]

SInv == IInv /\ ServerTypeOK /\ ExportsLinked /\ ServerHearsOnce

-----------------------------------------------------------------------------
(* G_DbusServer leaves the connection its life.                            *)

LEMMA ServerStepIsStep == [ServerNext]_allVars => [Next]_vars
<1> SUFFICES ASSUME [ServerNext]_allVars PROVE [Next]_vars
  OBVIOUS
<1>1. CASE UNCHANGED allVars
  BY <1>1 DEF allVars
<1>2. CASE Others
  BY <1>2 DEF Next
<1>3. ASSUME NEW e \in Endpoints, ServerBusAcquired(e) \/ ClientBusAcquired(e)
      PROVE  Next
  BY <1>3 DEF ServerBusAcquired, ClientBusAcquired, Next
<1>4. ASSUME NEW e \in Endpoints, NEW i \in Ifaces, AddInterface(e, i)
      PROVE  UNCHANGED vars
  BY <1>4 DEF AddInterface
<1>. QED
  BY <1>1, <1>2, <1>3, <1>4 DEF ServerNext

\* Whatever is exported and subscribed, the endpoints behave as connections:
\* all that is proved of G_DbusConnection holds of its servers and clients.
THEOREM ServersAreConnections == ServerSpec => Spec
<1>1. ServerInit => Init
  BY DEF ServerInit
<1>. QED
  BY <1>1, ServerStepIsStep, PTL DEF ServerSpec, Spec

\* A step that is not on_bus_acquired gives nobody the connection, lets only
\* idle endpoints register, and takes a program's endpoints only together
\* with its connection.
LEMMA OthersFacts ==
    ASSUME IInv, Others, NEW e \in Endpoints
    PROVE  /\ \/ life'[e] = life[e]
              \/ life'[e] = "absent" /\ link'[ProcOf[e]] = "none"
              \/ life[e] = "absent" /\ life'[e] = "built"
              \/ life[e] = "built" /\ life'[e] = "started"
           /\ conn'[e] = "live" => conn[e] = "live"
           /\ own'[e] = "getting" => own[e] \in {"none", "getting"}
<1>. DEFINE P(x) == /\ \/ life'[x] = life[x]
                       \/ life'[x] = "absent" /\ link'[ProcOf[x]] = "none"
                       \/ life[x] = "absent" /\ life'[x] = "built"
                       \/ life[x] = "built" /\ life'[x] = "started"
                    /\ conn'[x] = "live" => conn[x] = "live"
                    /\ own'[x] = "getting" => own[x] \in {"none", "getting"}
<1>. USE DEF Members
<1>1. ASSUME NEW p \in Procs, NEW S, NEW l, OnNameLost(p, S, l) PROVE P(e)
  BY <1>1 DEF OnNameLost, Unown, DropConn
<1>2. ASSUME NEW p \in Procs, Vanish(p) PROVE P(e)
  BY <1>2 DEF Vanish, IInv, TypeOK
<1>3. ASSUME NEW f \in Endpoints, User(f) PROVE P(e)
  BY <1>3 DEF User, Construct, Start, OwnName, CallMethod, IInv, TypeOK, LifeCycle
<1>4. ASSUME NEW f \in Endpoints, Callback(f) PROVE P(e)
  <2>1. CASE GetFailed(f) \/ RequestRefused(f) \/ NameLostSignal(f)
    BY <1>1, <2>1 DEF GetFailed, RequestRefused, NameLostSignal
  <2>2. CASE OnNameAcquired(f)
    BY <2>2 DEF OnNameAcquired, IInv, TypeOK
  <2>3. CASE ReconnTimeout(f)
    BY <2>3 DEF ReconnTimeout, OwnName, IInv, TypeOK, RetryArmed
  <2>. QED
    BY <1>4, <2>1, <2>2, <2>3 DEF Callback
<1>5. ASSUME NEW f \in Endpoints, DaemonRequestName(f) PROVE P(e)
  BY <1>5 DEF DaemonRequestName, IInv, TypeOK
<1>6. ASSUME NEW p \in Procs, BusConnect(p) \/ OnClosed(p) \/ ProcEnd(p) PROVE P(e)
  BY <1>1, <1>2, <1>6 DEF BusConnect, OnClosed, ProcEnd
<1>7. CASE BusDown \/ BusUp \/ \E n \in Names : ForeignTake(n) \/ ForeignRelease(n)
  BY <1>7 DEF BusDown, BusUp, ForeignTake, ForeignRelease
<1>8. P(e)
  BY <1>3, <1>4, <1>5, <1>6, <1>7 DEF Others, Env
<1>. QED
  BY <1>8

-----------------------------------------------------------------------------
(* What every deployment has.                                              *)

\* What on_bus_acquired of server e does: the interfaces it reaches were
\* exported by nobody, and are its own, heard once, from then on.
LEMMA AcquiredFacts ==
    ASSUME SInv, NEW e \in Endpoints, ServerBusAcquired(e)
    PROVE  /\ e \in Servers /\ life[e] = "started"
           /\ link[ProcOf[e]] # "none" /\ link' = link /\ life' = life /\ lut' = lut
           /\ \A i \in Ifaces : Reaches(e, i) =>
                 i \in lut[e] /\ exported[ProcOf[e]][i] = NoOwner
           /\ \A p \in Procs, i \in Ifaces :
                 exported'[p][i] = IF p = ProcOf[e] /\ Reaches(e, i) THEN e
                                   ELSE exported[p][i]
           /\ \A f \in Endpoints, i \in Ifaces :
                 subs'[f][i] = IF f = e /\ Reaches(e, i) /\ subs[f][i] < Many
                               THEN subs[f][i] + 1 ELSE subs[f][i]
<1>1. OnBusAcquired(e) /\ e \in Servers /\ lut' = lut
  BY DEF ServerBusAcquired
<1>2. life[e] = "started" /\ link[ProcOf[e]] # "none" /\ link' = link /\ life' = life
  BY <1>1 DEF OnBusAcquired, SInv, IInv, LifeCycle
<1>3. \A i \in Ifaces : Reaches(e, i) => i \in lut[e] /\ exported[ProcOf[e]][i] = NoOwner
  BY RankAssumption DEF Reaches
<1>. DEFINE I == {i \in Ifaces : Reaches(e, i)}
<1>4. /\ exported' = [exported EXCEPT ![ProcOf[e]] =
                        [i \in Ifaces |-> IF i \in I THEN e ELSE @[i]]]
      /\ subs' = [subs EXCEPT ![e] =
                    [i \in Ifaces |-> IF i \in I /\ @[i] < Many THEN @[i] + 1 ELSE @[i]]]
  BY DEF ServerBusAcquired, SubscribeSignals
<1>5. \A p \in Procs, i \in Ifaces :
         exported'[p][i] = IF p = ProcOf[e] /\ Reaches(e, i) THEN e ELSE exported[p][i]
  BY <1>4 DEF SInv, ServerTypeOK
<1>6. \A f \in Endpoints, i \in Ifaces :
         subs'[f][i] = IF f = e /\ Reaches(e, i) /\ subs[f][i] < Many
                       THEN subs[f][i] + 1 ELSE subs[f][i]
  BY <1>4 DEF SInv, ServerTypeOK
<1>. QED
  BY <1>1, <1>2, <1>3, <1>5, <1>6

LEMMA SInitInv == ServerInit => SInv
<1> SUFFICES ASSUME ServerInit PROVE SInv
  OBVIOUS
<1>1. IInv
  BY InitInv DEF ServerInit
<1>2. ServerTypeOK
  BY DEF ServerInit, ServerTypeOK, NothingExported, NoSubscription, Many
<1>3. ExportsLinked
  BY DEF ServerInit, ExportsLinked, NothingExported
<1>4. ServerHearsOnce
  BY DEF ServerInit, ServerHearsOnce, NothingExported, NoSubscription, Servers
<1>. QED
  BY <1>1, <1>2, <1>3, <1>4 DEF SInv

\* The types, for every step.
LEMMA TypeStep == SInv /\ [ServerNext]_allVars => ServerTypeOK'
<1> SUFFICES ASSUME SInv, [ServerNext]_allVars PROVE ServerTypeOK'
  OBVIOUS
<1>. USE DEF SInv, ServerTypeOK
<1>1. CASE UNCHANGED allVars
  BY <1>1 DEF allVars, serverVars
<1>2. CASE Others /\ Follow
  BY <1>2 DEF Follow, NothingExported, NoSubscription, Many
<1>3. ASSUME NEW e \in Endpoints, NEW I, SubscribeSignals(e, I)
      PROVE  subs' \in [Endpoints -> [Ifaces -> 0 .. Many]]
  BY <1>3 DEF SubscribeSignals, Many
<1>4. ASSUME NEW e \in Endpoints, ServerBusAcquired(e) PROVE ServerTypeOK'
  <2>1. subs' \in [Endpoints -> [Ifaces -> 0 .. Many]]
    BY <1>3, <1>4 DEF ServerBusAcquired
  <2>2. /\ exported' \in [Procs -> [Ifaces -> Servers \cup {NoOwner}]]
        /\ offered' \in [Endpoints -> SUBSET Ifaces]
        /\ UNCHANGED <<lut, atStart>>
    BY <1>4 DEF ServerBusAcquired
  <2>. QED
    BY <2>1, <2>2
<1>5. ASSUME NEW e \in Endpoints, ClientBusAcquired(e) PROVE ServerTypeOK'
  BY <1>3, <1>5 DEF ClientBusAcquired
<1>6. ASSUME NEW e \in Endpoints, NEW i \in Ifaces, AddInterface(e, i)
      PROVE  ServerTypeOK'
  BY <1>6 DEF AddInterface
<1>. QED
  BY <1>1, <1>2, <1>4, <1>5, <1>6 DEF ServerNext

LEMMA ExportsStep == SInv /\ [ServerNext]_allVars => ExportsLinked'
<1> SUFFICES ASSUME SInv, [ServerNext]_allVars,
                    NEW p \in Procs, NEW i \in Ifaces, exported'[p][i] # NoOwner
             PROVE  LET e == exported'[p][i] IN
                    /\ link'[p] # "none"
                    /\ e \in Servers /\ ProcOf[e] = p
                    /\ life'[e] = "started"
                    /\ i \in lut'[e]
  BY DEF ExportsLinked
<1>. DEFINE o == exported[p][i]
<1>0. o # NoOwner => /\ link[p] # "none" /\ o \in Servers /\ o \in Endpoints
                     /\ ProcOf[o] = p /\ life[o] = "started" /\ i \in lut[o]
  BY DEF SInv, ExportsLinked, Servers
<1>1. CASE UNCHANGED allVars
  BY <1>0, <1>1 DEF allVars, vars, serverVars
<1>2. CASE Others /\ Follow
  <2>1. exported'[p][i] = o /\ link'[p] # "none"
    BY <1>2 DEF Follow, NothingExported
  <2>2. life'[o] = "started"
    BY <1>0, <1>2, <2>1, OthersFacts DEF SInv
  <2>3. lut'[o] = lut[o]
    BY <1>0, <1>2, <2>1, <2>2 DEF Follow
  <2>. QED
    BY <1>0, <2>1, <2>2, <2>3
<1>3. ASSUME NEW e \in Endpoints, ServerBusAcquired(e)
      PROVE  /\ link'[p] # "none" /\ exported'[p][i] \in Servers
             /\ ProcOf[exported'[p][i]] = p /\ life'[exported'[p][i]] = "started"
             /\ i \in lut'[exported'[p][i]]
  BY <1>0, <1>3, AcquiredFacts
<1>4. ASSUME NEW e \in Endpoints, ClientBusAcquired(e)
      PROVE  exported' = exported /\ link' = link /\ life' = life /\ lut' = lut
  BY <1>4 DEF ClientBusAcquired, OnBusAcquired
<1>5. ASSUME NEW e \in Endpoints, NEW j \in Ifaces, AddInterface(e, j)
      PROVE  /\ exported' = exported /\ link' = link /\ life' = life
             /\ \A f \in Endpoints : lut[f] \subseteq lut'[f]
  BY <1>5 DEF AddInterface, vars, SInv, ServerTypeOK
<1>. QED
  BY <1>0, <1>1, <1>2, <1>3, <1>4, <1>5 DEF ServerNext

LEMMA HearsStep == SInv /\ [ServerNext]_allVars => ServerHearsOnce'
<1> SUFFICES ASSUME SInv, [ServerNext]_allVars, NEW f \in Servers, NEW i \in Ifaces
             PROVE  subs'[f][i] = IF exported'[ProcOf[f]][i] = f THEN 1 ELSE 0
  BY DEF ServerHearsOnce
<1>0. /\ subs[f][i] = IF exported[ProcOf[f]][i] = f THEN 1 ELSE 0
      /\ f \in Endpoints /\ f # NoOwner
  BY DEF SInv, ServerHearsOnce, Servers
<1>1. CASE UNCHANGED allVars
  BY <1>0, <1>1 DEF allVars, serverVars
<1>2. CASE Others /\ Follow
  BY <1>0, <1>2 DEF Follow, NothingExported, NoSubscription
<1>3. ASSUME NEW e \in Endpoints, ServerBusAcquired(e)
      PROVE  subs'[f][i] = IF exported'[ProcOf[f]][i] = f THEN 1 ELSE 0
  BY <1>0, <1>3, AcquiredFacts DEF Many
<1>4. ASSUME NEW e \in Endpoints, ClientBusAcquired(e)
      PROVE  exported' = exported /\ subs'[f] = subs[f]
  BY <1>4 DEF ClientBusAcquired, SubscribeSignals, SInv, ServerTypeOK, Servers
<1>5. ASSUME NEW e \in Endpoints, NEW j \in Ifaces, AddInterface(e, j)
      PROVE  exported' = exported /\ subs' = subs
  BY <1>5 DEF AddInterface
<1>. QED
  BY <1>0, <1>1, <1>2, <1>3, <1>4, <1>5 DEF ServerNext

LEMMA SStepInv == SInv /\ [ServerNext]_allVars => SInv'
  BY StepInv, ServerStepIsStep, TypeStep, ExportsStep, HearsStep DEF SInv

LEMMA ServerInvariance == ServerSpec => []SInv
  BY SInitInv, SStepInv, PTL DEF ServerSpec

\* Every variable of the servers keeps its type in every run.
THEOREM ServerTypeCorrect == ServerSpec => []ServerTypeOK
  BY ServerInvariance, PTL DEF SInv

\* The subscriptions of a server are those of its exports, one for each:
\* handlers run once per signal, whatever on_bus_acquired meets.
THEOREM ServersHearOnce == ServerSpec => []ServerHearsOnce
  BY ServerInvariance, PTL DEF SInv

\* A call that GLib dispatches meets an object and interface of the registry:
\* dispatch_method_call never answers that they are unknown.
THEOREM DispatchAlwaysFinds == ServerSpec => []DispatchFinds
<1>1. SInv => DispatchFinds
  BY DEF SInv, ExportsLinked, DispatchFinds
<1>. QED
  BY <1>1, ServerInvariance, PTL

-----------------------------------------------------------------------------
(* One server in a process: nobody hides its interfaces.                   *)

\* As long as a server has anything on the connection, or is ready, what the
\* program added before start is all there.
Full(e) == \A i \in atStart[e] : Parsable(e, i) => exported[ProcOf[e]][i] = e
StartedKept ==
    \A e \in Servers :
        /\ atStart[e] \subseteq lut[e]
        /\ \/ conn[e] = "live"
           \/ \E i \in Ifaces : exported[ProcOf[e]][i] = e
           => Full(e)

LEMMA StartedStep ==
    ASSUME OneServer, SInv, StartedKept, [ServerNext]_allVars PROVE StartedKept'
<1> SUFFICES ASSUME NEW e \in Servers
             PROVE  /\ atStart'[e] \subseteq lut'[e]
                    /\ \/ conn'[e] = "live"
                       \/ \E i \in Ifaces : exported'[ProcOf[e]][i] = e
                       => Full(e)'
  BY DEF StartedKept
<1>. DEFINE p == ProcOf[e]
            On == conn[e] = "live" \/ \E i \in Ifaces : exported[p][i] = e
<1>0. /\ e \in Endpoints /\ p \in Procs /\ e # NoOwner
      /\ atStart[e] \subseteq lut[e] /\ lut[e] \subseteq Ifaces
      /\ On => Full(e)
      /\ On => life[e] = "started"
  <2>1. e \in Endpoints /\ p \in Procs /\ e # NoOwner
    BY DEF Servers
  <2>2. lut[e] \subseteq Ifaces
    BY <2>1 DEF SInv, ServerTypeOK
  <2>3. conn[e] = "live" => life[e] = "started"
    BY <2>1 DEF SInv, IInv, ConnUsable, Connected, LifeCycle
  <2>4. \A i \in Ifaces : exported[p][i] = e => life[e] = "started"
    BY <2>1 DEF SInv, ExportsLinked
  <2>5. atStart[e] \subseteq lut[e] /\ (On => Full(e))
    BY DEF StartedKept
  <2>. QED
    BY <2>1, <2>2, <2>3, <2>4, <2>5
<1>1. CASE UNCHANGED allVars
  BY <1>0, <1>1 DEF allVars, vars, serverVars, Full, Parsable
<1>2. CASE Others /\ Follow
  <2>1. atStart'[e] \subseteq lut'[e]
    BY <1>0, <1>2, OthersFacts DEF Follow, SInv
  <2>2. IInv'
    BY <1>2, StepInv, ServerStepIsStep DEF SInv, ServerNext
  <2>3. ASSUME conn'[e] = "live" \/ \E i \in Ifaces : exported'[p][i] = e
        PROVE  Full(e)'
    <3>1. link'[p] # "none"
      BY <1>0, <1>2, <2>2, <2>3 DEF Follow, NothingExported, IInv, ConnUsable
    <3>2. exported'[p] = exported[p]
      BY <1>0, <1>2, <3>1 DEF Follow
    <3>3. On
      BY <1>2, <1>0, <2>3, <3>2, OthersFacts DEF SInv
    <3>4. life'[e] = "started" /\ life[e] = "started"
      BY <1>0, <1>2, <3>1, <3>3, OthersFacts DEF SInv
    <3>5. lut'[e] = lut[e] /\ atStart'[e] = atStart[e]
      BY <1>0, <1>2, <3>4 DEF Follow
    <3>. QED
      BY <1>0, <3>2, <3>3, <3>5 DEF Full, Parsable
  <2>. QED
    BY <2>1, <2>3
<1>3. ASSUME NEW f \in Endpoints, ServerBusAcquired(f)
      PROVE  /\ atStart'[e] \subseteq lut'[e]
             /\ \/ conn'[e] = "live"
                \/ \E i \in Ifaces : exported'[p][i] = e
                => Full(e)'
  <2>1. /\ f \in Servers /\ lut' = lut /\ atStart' = atStart
        /\ conn' = [conn EXCEPT ![f] = "live"]
    BY <1>3 DEF ServerBusAcquired, OnBusAcquired
  <2>2. CASE On
    <3>1. \A i \in Ifaces : exported[p][i] = e => exported'[p][i] = e
      BY <1>0, <1>3, AcquiredFacts
    <3>. QED
      BY <1>0, <2>1, <2>2, <3>1 DEF Full, Parsable
  <2>3. CASE ~On /\ f # e
    <3>1. p # ProcOf[f]
      BY <2>1, <2>3 DEF OneServer
    <3>2. \A i \in Ifaces : exported'[p][i] = exported[p][i]
      BY <1>0, <1>3, <3>1, AcquiredFacts
    <3>3. conn'[e] = conn[e]
      BY <1>0, <2>1, <2>3 DEF SInv, IInv, TypeOK
    <3>. QED
      BY <1>0, <2>1, <2>3, <3>2, <3>3
  <2>4. CASE ~On /\ f = e
    <3>1. \A i \in Ifaces : exported[p][i] = NoOwner
      BY <1>0, <2>4 DEF OneServer, SInv, ExportsLinked, ServerTypeOK
    <3>2. \A i \in lut[e] : Parsable(e, i) => Reaches(e, i)
      BY <1>0, <3>1 DEF Reaches
    <3>3. \A i \in lut[e] : Parsable(e, i) => exported'[p][i] = e
      BY <1>0, <1>3, <2>4, <3>2, AcquiredFacts
    <3>. QED
      BY <1>0, <2>1, <3>3 DEF Full, Parsable
  <2>. QED
    BY <2>2, <2>3, <2>4
<1>4. ASSUME NEW f \in Endpoints, ClientBusAcquired(f)
      PROVE  UNCHANGED <<lut, atStart, exported, conn[e]>>
  BY <1>0, <1>4 DEF ClientBusAcquired, OnBusAcquired, Servers, SInv, IInv, TypeOK
<1>5. ASSUME NEW f \in Endpoints, NEW j \in Ifaces, AddInterface(f, j)
      PROVE  UNCHANGED <<atStart, exported, conn>> /\ lut[e] \subseteq lut'[e]
  BY <1>0, <1>5 DEF AddInterface, vars, SInv, ServerTypeOK
<1>6. ASSUME UNCHANGED <<atStart, exported, conn[e]>>, lut[e] \subseteq lut'[e]
      PROVE  /\ atStart'[e] \subseteq lut'[e]
             /\ \/ conn'[e] = "live"
                \/ \E i \in Ifaces : exported'[p][i] = e
                => Full(e)'
  BY <1>0, <1>6 DEF Full, Parsable
<1>. QED
  BY <1>1, <1>2, <1>3, <1>4, <1>5, <1>6 DEF ServerNext

\* With one server in each process, next to any number of clients, what was
\* added before start is exported whenever the server is ready.
THEOREM StartedAlwaysExported == ASSUME OneServer PROVE ServerSpec => []StartedExports
<1>1. ServerInit => StartedKept
  BY DEF ServerInit, Init, StartedKept, Full, NothingExported, Servers
<1>2. SInv /\ StartedKept /\ [ServerNext]_allVars => StartedKept'
  BY StartedStep
<1>3. StartedKept => StartedExports
  BY DEF StartedKept, StartedExports, Ready, Full
<1>. QED
  BY <1>1, <1>2, <1>3, ServerInvariance, PTL DEF ServerSpec
-----------------------------------------------------------------------------
(* One endpoint in a process: each connection starts afresh.               *)

\* Before on_bus_acquired nothing is left of an earlier connection.
StartsAfresh ==
    \A e \in Endpoints : own[e] \in {"none", "getting"} =>
        \A i \in Ifaces : exported[ProcOf[e]][i] = NoOwner /\ subs[e][i] = 0

AloneInv == StartsAfresh /\ ExportsComplete /\ ClientHearsOnce

\* What on_bus_acquired of e does for endpoint f.
LEMMA AfreshAcquired ==
    ASSUME Alone, SInv, AloneInv, NEW e \in Endpoints, NEW f \in Endpoints,
           ServerBusAcquired(e) \/ ClientBusAcquired(e)
    PROVE  /\ own'[f] \in {"none", "getting"} => f # e /\ own'[f] = own[f]
           /\ f # e => UNCHANGED <<exported[ProcOf[f]], subs[f], offered[f], conn[f]>>
           /\ f = e => \A i \in Ifaces : exported[ProcOf[e]][i] = NoOwner /\ subs[e][i] = 0
<1>1. OnBusAcquired(e)
  BY DEF ServerBusAcquired, ClientBusAcquired
<1>2. /\ own[e] = "getting"
      /\ own' = [own EXCEPT ![e] = "requesting"]
      /\ conn' = [conn EXCEPT ![e] = "live"]
  BY <1>1 DEF OnBusAcquired
<1>3. own'[f] \in {"none", "getting"} => f # e /\ own'[f] = own[f]
  BY <1>2 DEF SInv, IInv, TypeOK
<1>4. f # e => conn'[f] = conn[f]
  BY <1>2 DEF SInv, IInv, TypeOK
<1>5. f # e => exported'[ProcOf[f]] = exported[ProcOf[f]]
  <2>1. f # e => ProcOf[f] # ProcOf[e]
    BY DEF Alone
  <2>. QED
    BY <2>1 DEF ServerBusAcquired, ClientBusAcquired, SInv, ServerTypeOK
<1>6. f # e => subs'[f] = subs[f] /\ offered'[f] = offered[f]
  BY DEF ServerBusAcquired, ClientBusAcquired, SubscribeSignals, SInv, ServerTypeOK
<1>7. \A i \in Ifaces : exported[ProcOf[e]][i] = NoOwner /\ subs[e][i] = 0
  BY <1>2 DEF AloneInv, StartsAfresh
<1>. QED
  BY <1>3, <1>4, <1>5, <1>6, <1>7

LEMMA AfreshStep ==
    ASSUME Alone, SInv, AloneInv, [ServerNext]_allVars PROVE StartsAfresh'
<1> SUFFICES ASSUME NEW e \in Endpoints, own'[e] \in {"none", "getting"},
                    NEW i \in Ifaces
             PROVE  exported'[ProcOf[e]][i] = NoOwner /\ subs'[e][i] = 0
  BY DEF StartsAfresh
<1>0. own[e] \in {"none", "getting"} =>
         exported[ProcOf[e]][i] = NoOwner /\ subs[e][i] = 0
  BY DEF AloneInv, StartsAfresh
<1>1. CASE UNCHANGED allVars
  BY <1>0, <1>1 DEF allVars, vars, serverVars
<1>2. CASE Others /\ Follow
  <2>1. IInv'
    BY <1>2, StepInv, ServerStepIsStep DEF SInv, ServerNext
  <2>2. own'[e] = "none" => link'[ProcOf[e]] = "none"
    BY <2>1 DEF IInv, LinkHeld, Members, Alone
  <2>3. link'[ProcOf[e]] = "none" => exported'[ProcOf[e]][i] = NoOwner /\ subs'[e][i] = 0
    BY <1>2 DEF Follow, NothingExported, NoSubscription
  <2>4. own'[e] = "getting" => own[e] \in {"none", "getting"}
    BY <1>2, OthersFacts DEF SInv
  <2>5. link'[ProcOf[e]] # "none" =>
           UNCHANGED <<exported[ProcOf[e]][i], subs[e][i]>>
    BY <1>2 DEF Follow
  <2>. QED
    BY <1>0, <2>2, <2>3, <2>4, <2>5
<1>3. ASSUME NEW f \in Endpoints, ServerBusAcquired(f) \/ ClientBusAcquired(f)
      PROVE  exported'[ProcOf[e]][i] = NoOwner /\ subs'[e][i] = 0
  BY <1>0, <1>3, AfreshAcquired
<1>4. ASSUME NEW f \in Endpoints, NEW j \in Ifaces, AddInterface(f, j)
      PROVE  UNCHANGED <<own, exported, subs>>
  BY <1>4 DEF AddInterface, vars
<1>. QED
  BY <1>0, <1>1, <1>2, <1>3, <1>4 DEF ServerNext

LEMMA CompleteStep ==
    ASSUME Alone, SInv, AloneInv, [ServerNext]_allVars PROVE ExportsComplete'
<1>. DEFINE Whole(e, i) == \A j \in offered[e] : ObjRank[j] <= ObjRank[i] => j \notin Broken
<1> SUFFICES ASSUME NEW e \in Endpoints, e \in Servers, conn'[e] = "live",
                    NEW i \in offered'[e], Whole(e, i)'
             PROVE  exported'[ProcOf[e]][i] = e
  BY DEF ExportsComplete, Ready
<1>0. \A k \in offered[e] : conn[e] = "live" /\ Whole(e, k) => exported[ProcOf[e]][k] = e
  BY DEF AloneInv, ExportsComplete, Ready
<1>1. CASE UNCHANGED allVars
  BY <1>0, <1>1 DEF allVars, vars, serverVars
<1>2. CASE Others /\ Follow
  <2>1. IInv'
    BY <1>2, StepInv, ServerStepIsStep DEF SInv, ServerNext
  <2>2. link'[ProcOf[e]] # "none"
    BY <2>1 DEF IInv, ConnUsable
  <2>3. UNCHANGED <<exported[ProcOf[e]], offered[e]>>
    BY <1>2, <2>2 DEF Follow
  <2>4. conn[e] = "live"
    BY <1>2, OthersFacts DEF SInv
  <2>. QED
    BY <1>0, <2>3, <2>4
<1>3. ASSUME NEW f \in Endpoints, ServerBusAcquired(f), f = e
      PROVE  exported'[ProcOf[e]][i] = e
  <2>1. offered'[e] = lut[e] /\ lut[e] \subseteq Ifaces
    BY <1>3 DEF ServerBusAcquired, SInv, ServerTypeOK
  <2>2. Reaches(e, i)
    BY <1>3, <2>1, AfreshAcquired DEF Reaches, Parsable
  <2>. QED
    BY <1>3, <2>1, <2>2, AcquiredFacts
<1>4. ASSUME NEW f \in Endpoints, ServerBusAcquired(f) \/ ClientBusAcquired(f), f # e
      PROVE  exported'[ProcOf[e]][i] = e
  BY <1>0, <1>4, AfreshAcquired
<1>5. ASSUME NEW f \in Endpoints, ClientBusAcquired(f) PROVE f # e
  BY <1>5 DEF ClientBusAcquired, Servers
<1>6. ASSUME NEW f \in Endpoints, NEW j \in Ifaces, AddInterface(f, j)
      PROVE  UNCHANGED <<conn, exported, offered>>
  BY <1>6 DEF AddInterface, vars
<1>. QED
  BY <1>0, <1>1, <1>2, <1>3, <1>4, <1>5, <1>6 DEF ServerNext

LEMMA ClientHearsStep ==
    ASSUME Alone, SInv, AloneInv, [ServerNext]_allVars PROVE ClientHearsOnce'
<1> SUFFICES ASSUME NEW e \in Clients, NEW i \in Ifaces PROVE subs'[e][i] <= 1
  BY DEF ClientHearsOnce
<1>0. e \in Endpoints /\ subs[e][i] <= 1
  BY DEF AloneInv, ClientHearsOnce
<1>1. CASE UNCHANGED allVars
  BY <1>0, <1>1 DEF allVars, serverVars
<1>2. CASE Others /\ Follow
  BY <1>0, <1>2 DEF Follow, NoSubscription
<1>3. ASSUME NEW f \in Endpoints, ServerBusAcquired(f) \/ ClientBusAcquired(f)
      PROVE  subs'[e][i] <= 1
  <2>1. CASE f # e
    BY <1>0, <1>3, <2>1, AfreshAcquired
  <2>2. CASE f = e
    <3>1. ClientBusAcquired(e) /\ subs[e][i] = 0
      BY <1>0, <1>3, <2>2, AfreshAcquired DEF ServerBusAcquired, Servers
    <3>. QED
      BY <1>0, <3>1 DEF ClientBusAcquired, SubscribeSignals, SInv, ServerTypeOK
  <2>. QED
    BY <2>1, <2>2
<1>4. ASSUME NEW f \in Endpoints, NEW j \in Ifaces, AddInterface(f, j)
      PROVE  subs' = subs
  BY <1>4 DEF AddInterface
<1>. QED
  BY <1>0, <1>1, <1>2, <1>3, <1>4 DEF ServerNext

LEMMA AloneInvariance == ASSUME Alone PROVE ServerSpec => []AloneInv
<1>1. ServerInit => AloneInv
  BY DEF ServerInit, Init, AloneInv, StartsAfresh, ExportsComplete, ClientHearsOnce, Ready,
         NothingExported, NoSubscription
<1>2. SInv /\ AloneInv /\ [ServerNext]_allVars => AloneInv'
  BY AfreshStep, CompleteStep, ClientHearsStep DEF AloneInv
<1>. QED
  BY <1>1, <1>2, ServerInvariance, PTL DEF ServerSpec

\* With one endpoint in each process, a ready server exports what it had when
\* it last got the connection, whatever an earlier one saw.
THEOREM AlwaysComplete == ASSUME Alone PROVE ServerSpec => []ExportsComplete
  BY AloneInvariance, PTL DEF AloneInv

\* In such a process, no callback of a client runs twice for one signal.
THEOREM ClientsHearOnce == ASSUME Alone PROVE ServerSpec => []ClientHearsOnce
  BY AloneInvariance, PTL DEF AloneInv
=============================================================================
