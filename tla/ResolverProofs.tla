--------------------------- MODULE ResolverProofs ---------------------------
(***************************************************************************)
(* The mutex of the Resolver does its work for any number of workers and    *)
(* tunnels and any domain the host may answer: the URLs of one process      *)
(* agree.                                                                   *)
(*                                                                          *)
(* The argument: a worker fetches only while it holds the mutex and the     *)
(* cache is empty, so the cache is filled once and never changes while the  *)
(* process lives; what a pass was given, and every URL this process has     *)
(* written, is that domain, or the override.  URLs of earlier processes are *)
(* left alone, and agree because they did when their process ended.         *)
(***************************************************************************)
EXTENDS DomainResolver, TLAPS

Base == IF Override # None THEN Override ELSE cached

(* A worker in a pass knows what it reconciles.                             *)
InPass ==
  \A w \in Workers :
    pc[w] # "idle" => at[w] \in Tunnels /\ spec[w] \in Subdomains

(* Check and fetch happen under the mutex, the fetch with an empty cache.   *)
Guarded ==
  \A w \in Workers :
    /\ pc[w] \in {"check", "fetch"} => mu = w /\ Override = None
    /\ pc[w] = "fetch" => cached = None

FoundIsBase == \A w \in Workers : found[w] # None => found[w] = Base

WrittenIsBase ==
  \A t \in Tunnels :
    url[t] # None =>
      url[t].by <= process /\ (url[t].by = process => url[t].domain = Base)

ResolverInv ==
  /\ ResolverTypeOK /\ InPass /\ Guarded
  /\ FoundIsBase /\ WrittenIsBase /\ UrlsAgree

LEMMA InitResolver == Init => ResolverInv
  BY ResolverAssumption
  DEF Init, Nothing, ResolverInv, ResolverTypeOK, InPass, Guarded,
      FoundIsBase, WrittenIsBase, UrlsAgree

-----------------------------------------------------------------------------
(* Steps that leave cache, URLs and process alone keep what is said of      *)
(* URLs.                                                                    *)
LEMMA UrlsUntouched ==
  ASSUME WrittenIsBase, UrlsAgree,
         UNCHANGED <<url, process, Override, cached>>
  PROVE  WrittenIsBase' /\ UrlsAgree'
  BY DEF WrittenIsBase, UrlsAgree, Base

LEMMA StartPassKeeps ==
  ASSUME ResolverInv, NEW w \in Workers, NEW t \in Tunnels, StartPass(w, t)
  PROVE  ResolverInv'
<1> USE DEF ResolverInv, StartPass, Go, cluster, world
<1>1. ResolverTypeOK'
  BY DEF ResolverTypeOK
<1>2. InPass'
  BY DEF ResolverTypeOK, InPass
<1>3. Guarded'
  BY DEF ResolverTypeOK, Guarded
<1>4. FoundIsBase'
  BY DEF FoundIsBase, Base
<1> QED BY <1>1, <1>2, <1>3, <1>4, UrlsUntouched

LEMMA ConvergePodKeeps ==
  ASSUME ResolverInv, NEW w \in Workers, ConvergePod(w)
  PROVE  ResolverInv'
<1> USE DEF ResolverInv, ConvergePod, EndPass, Go, world
<1>0. at[w] \in Tunnels /\ spec[w] \in Subdomains
  BY DEF InPass
<1>1. ResolverTypeOK'
  BY <1>0 DEF ResolverTypeOK
<1>2. InPass'
  BY DEF ResolverTypeOK, InPass
<1>3. Guarded'
  BY DEF ResolverTypeOK, Guarded
<1>4. FoundIsBase'
  BY DEF ResolverTypeOK, FoundIsBase, Base
<1> QED BY <1>1, <1>2, <1>3, <1>4, UrlsUntouched

(* OverrideDomain, Lock, CheckCache and FetchFails, which leave the cache   *)
(* and the URLs alone.                                                      *)
LEMMA AskKeeps ==
  ASSUME ResolverInv, NEW w \in Workers,
         OverrideDomain(w) \/ Lock(w) \/ CheckCache(w) \/ FetchFails(w)
  PROVE  ResolverInv'
<1> USE DEF ResolverInv, OverrideDomain, Lock, CheckCache, FetchFails,
            ReturnDomain, DomainOnly, Go, cluster, world
<1>1. ResolverTypeOK'
  BY DEF ResolverTypeOK
<1>2. InPass'
  BY DEF ResolverTypeOK, InPass
<1>3. Guarded'
  BY ResolverAssumption DEF ResolverTypeOK, Guarded
<1>4. FoundIsBase'
  BY DEF ResolverTypeOK, FoundIsBase, Guarded, Base
<1> QED BY <1>1, <1>2, <1>3, <1>4, UrlsUntouched

(* The cache is filled: nobody has been given a domain yet and this process *)
(* has written no URL.                                                      *)
LEMMA FetchSucceedsKeeps ==
  ASSUME ResolverInv, NEW w \in Workers, FetchSucceeds(w)
  PROVE  ResolverInv'
<1> USE DEF ResolverInv, FetchSucceeds, ReturnDomain, DomainOnly, Go,
            cluster, world
<1>0. Override = None /\ cached = None /\ mu = w
  BY DEF Guarded
<1>1. ResolverTypeOK'
  BY DEF ResolverTypeOK
<1>2. InPass'
  BY DEF ResolverTypeOK, InPass
<1>3. Guarded'
  BY <1>0, ResolverAssumption DEF ResolverTypeOK, Guarded
<1>4. FoundIsBase'
  BY <1>0 DEF ResolverTypeOK, FoundIsBase, Base
<1>5. \A t \in Tunnels : url[t] # None => url[t].by # process
  BY <1>0, ResolverAssumption DEF ResolverTypeOK, URLs, WrittenIsBase, Base
<1>6. WrittenIsBase'
  BY <1>5 DEF WrittenIsBase
<1>7. UrlsAgree'
  BY DEF UrlsAgree
<1> QED BY <1>1, <1>2, <1>3, <1>4, <1>6, <1>7

LEMMA ReportActiveKeeps ==
  ASSUME ResolverInv, NEW w \in Workers, ReportActive(w)
  PROVE  ResolverInv'
<1> USE DEF ResolverInv, ReportActive, EndPass, Go, world
<1>0. at[w] \in Tunnels /\ spec[w] \in Subdomains
  BY DEF InPass
<1>a. found[w] # None => found[w] = Base /\ URLFor(spec[w], found[w]) \in URLs
  BY <1>0 DEF ResolverTypeOK, FoundIsBase, URLFor, URLs
<1>1. ResolverTypeOK'
  BY <1>0, <1>a DEF ResolverTypeOK
<1>2. InPass'
  BY DEF ResolverTypeOK, InPass
<1>3. Guarded'
  BY DEF ResolverTypeOK, Guarded
<1>4. FoundIsBase'
  BY DEF ResolverTypeOK, FoundIsBase, Base
<1>5. \A t \in Tunnels :
        url'[t] = url[t] \/ url'[t] = URLFor(spec[w], Base)
  BY <1>a DEF ResolverTypeOK
<1>6. WrittenIsBase'
  BY <1>5 DEF ResolverTypeOK, WrittenIsBase, Base, URLFor
<1>7. UrlsAgree'
  BY <1>5 DEF WrittenIsBase, UrlsAgree, URLFor
<1> QED BY <1>1, <1>2, <1>3, <1>4, <1>6, <1>7

(* Edits and changes of the host touch nothing the invariant relates.       *)
LEMMA WorldKeeps ==
  ASSUME ResolverInv, (\E t \in Tunnels : Edit(t)) \/ HostChanges
  PROVE  ResolverInv'
<1> USE DEF ResolverInv, Edit, HostChanges, Change, passes, cluster
<1>1. ResolverTypeOK'
  BY DEF ResolverTypeOK
<1>2. InPass' /\ Guarded' /\ FoundIsBase'
  BY DEF InPass, Guarded, FoundIsBase, Base
<1> QED BY <1>1, <1>2, UrlsUntouched

(* The URLs there are were written by earlier processes.                    *)
LEMMA RestartKeeps ==
  ASSUME ResolverInv, Restart
  PROVE  ResolverInv'
<1> USE DEF ResolverInv, Restart, Change, Nothing, cluster
<1>1. ResolverTypeOK'
  BY DEF ResolverTypeOK
<1>2. InPass' /\ Guarded' /\ FoundIsBase'
  BY DEF InPass, Guarded, FoundIsBase
<1>3. WrittenIsBase'
  BY DEF ResolverTypeOK, URLs, WrittenIsBase
<1>4. UrlsAgree'
  BY DEF UrlsAgree
<1> QED BY <1>1, <1>2, <1>3, <1>4

LEMMA ResolverStep ==
  ASSUME ResolverInv, [Next]_vars
  PROVE  ResolverInv'
<1>1. CASE UNCHANGED vars
  BY <1>1 DEF vars, passes, cluster, world, ResolverInv, ResolverTypeOK,
              InPass, Guarded, FoundIsBase, WrittenIsBase, UrlsAgree, Base
<1>2. ASSUME NEW w \in Workers, Pass(w) PROVE ResolverInv'
  BY <1>2, ConvergePodKeeps, AskKeeps, FetchSucceedsKeeps, ReportActiveKeeps
  DEF Pass
<1>3. CASE Next
  BY <1>2, <1>3, AskKeeps, StartPassKeeps, WorldKeeps, RestartKeeps DEF Next
<1> QED BY <1>1, <1>3

(* Every variable of the resolver and its passes keeps its type; in         *)
(* particular no URL is written without a domain.                           *)
THEOREM ResolverTypeCorrect == Spec => []ResolverTypeOK
<1>1. ResolverInv => ResolverTypeOK
  BY DEF ResolverInv
<1> QED BY <1>1, InitResolver, ResolverStep, PTL DEF Spec

(* All URLs one process has written have one domain (Resolver.Domain).      *)
THEOREM UrlsAlwaysAgree == Spec => []UrlsAgree
<1>1. ResolverInv => UrlsAgree
  BY DEF ResolverInv
<1> QED BY <1>1, InitResolver, ResolverStep, PTL DEF Spec

(* One process fetches the domain once: only a restart empties or changes   *)
(* the cache (Resolver.fetch, resolver.go:79-116).  For this reason a       *)
(* single bit stands for the cache in TunnelController (domainKnown).       *)
CacheIsKept == process' = process => cached \in {None, cached'}

THEOREM CacheIsWriteOnce == Spec => [][CacheIsKept]_vars
<1>1. ASSUME ResolverInv, Next
      PROVE  CacheIsKept
  <2> USE <1>1 DEF CacheIsKept, ResolverInv
  <2>1. ASSUME NEW w \in Workers, Pass(w) \/ Lock(w) PROVE CacheIsKept
    BY <2>1 DEF Pass, ConvergePod, OverrideDomain, Lock, CheckCache,
                FetchSucceeds, FetchFails, ReportActive, EndPass, Go,
                ReturnDomain, DomainOnly, Guarded, cluster, world
  <2>2. ASSUME NEW w \in Workers, NEW t \in Tunnels, StartPass(w, t)
        PROVE  CacheIsKept
    BY <2>2 DEF StartPass, Go, cluster, world
  <2>3. ASSUME NEW t \in Tunnels, Edit(t) PROVE CacheIsKept
    BY <2>3 DEF Edit, Change, passes, cluster
  <2>4. CASE HostChanges
    BY <2>4 DEF HostChanges, Change, passes, cluster
  <2>5. CASE Restart
    BY <2>5 DEF Restart, Change, ResolverTypeOK, CacheIsKept
  <2> QED BY <2>1, <2>2, <2>3, <2>4, <2>5 DEF Next
<1> QED BY <1>1, InitResolver, ResolverStep, PTL DEF Spec
=============================================================================
