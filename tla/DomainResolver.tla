--------------------------- MODULE DomainResolver ---------------------------
(***************************************************************************)
(* The jprq base domain (internal/jprqconfig/resolver.go) and the passes    *)
(* that want it for status.url.  TunnelController has one tunnel and hence  *)
(* nobody to wait for; here several tunnels are reconciled by several       *)
(* workers, which share the Resolver, its mutex and its cache.              *)
(*                                                                          *)
(* Of a pass only the order matters: first the pod, which TunnelController  *)
(* takes apart, then the domain, then the status.  A pod is known here by   *)
(* the subdomain it was made for.                                           *)
(***************************************************************************)
EXTENDS Integers

CONSTANTS
  None,
  Workers,      \* the controller's MaxConcurrentReconciles
  Tunnels,
  Subdomains,
  Domains,      \* what config.json has said at one time or another
  MaxChanges    \* bound on edits, restarts and changes of the config host

ASSUME ResolverAssumption ==
  /\ None \notin Workers \cup Tunnels /\ None \notin Domains /\ None \notin Subdomains
  /\ MaxChanges \in Nat

VARIABLES
  queue,      \* tunnels due for a pass
  pc,         \* where each worker is in its pass
  at, spec,   \* the tunnel it reconciles, and the subdomain it read
  found,      \* the domain this pass was given
  mu,         \* the worker that holds r.mu
  cached,     \* r.cached
  Override,   \* r.Override, --jprq-domain
  process,    \* the number of the manager's process
  subdomain, pod, url,   \* of each tunnel
  host,       \* the config host "answers", "refuses" or is "silent"
  domain,     \* what it answers
  changes

passes  == <<pc, at, spec, found>>
cluster == <<subdomain, pod, url>>
world   == <<Override, process, host, domain, changes>>
vars    == <<queue, passes, mu, cached, cluster, world>>

Nothing == [w \in Workers |-> None]

Init ==
  /\ queue = Tunnels
  /\ pc = [w \in Workers |-> "idle"]
  /\ at = Nothing /\ spec = Nothing /\ found = Nothing
  /\ mu = None /\ cached = None
  /\ Override \in Domains \cup {None} /\ process = 0
  /\ subdomain \in [Tunnels -> Subdomains]
  /\ pod = [t \in Tunnels |-> None] /\ url = [t \in Tunnels |-> None]
  /\ host \in {"answers", "refuses", "silent"} /\ domain \in Domains
  /\ changes = 0

Go(w, label) == pc' = [pc EXCEPT ![w] = label]

(* The queue hands a tunnel to one worker at a time.                        *)
StartPass(w, t) ==
  /\ pc[w] = "idle" /\ t \in queue
  /\ \A v \in Workers : at[v] # t
  /\ queue' = queue \ {t}
  /\ at' = [at EXCEPT ![w] = t] /\ spec' = [spec EXCEPT ![w] = subdomain[t]]
  /\ Go(w, "converge")
  /\ UNCHANGED <<found, mu, cached, cluster, world>>

EndPass(w) ==
  /\ Go(w, "idle") /\ queue' = queue \cup {at[w]}
  /\ at' = [at EXCEPT ![w] = None] /\ spec' = [spec EXCEPT ![w] = None]
  /\ found' = [found EXCEPT ![w] = None]

(* The pod first: a pass that made one ends there, and another follows.     *)
ConvergePod(w) ==
  /\ pc[w] = "converge"
  /\ \/ /\ pod[at[w]] = spec[w] /\ Go(w, "domain")
        /\ UNCHANGED <<queue, at, spec, found, pod>>
     \/ /\ pod[at[w]] # spec[w] /\ EndPass(w)
        /\ pod' = [pod EXCEPT ![at[w]] = spec[w]]
  /\ UNCHANGED <<mu, cached, subdomain, url, world>>

-----------------------------------------------------------------------------
(* Domain.                                                                  *)

DomainOnly == UNCHANGED <<queue, at, spec, cluster, world>>

OverrideDomain(w) ==
  /\ pc[w] = "domain" /\ Override # None
  /\ found' = [found EXCEPT ![w] = Override] /\ Go(w, "report")
  /\ UNCHANGED <<mu, cached>> /\ DomainOnly

Lock(w) ==
  /\ pc[w] = "domain" /\ Override = None /\ mu = None
  /\ mu' = w /\ Go(w, "check")
  /\ UNCHANGED <<found, cached>> /\ DomainOnly

(* The deferred Unlock of every return below.                               *)
ReturnDomain(w, answer) ==
  /\ mu' = None
  /\ found' = [found EXCEPT ![w] = answer]
  /\ Go(w, "report")

(* Mutant of CheckCache: the fetch is made without the mutex.               *)
CheckAndRelease(w) ==
  /\ pc[w] = "check"
  /\ \/ cached # None /\ ReturnDomain(w, cached)
     \/ cached = None /\ Go(w, "fetch") /\ mu' = None /\ UNCHANGED found
  /\ UNCHANGED cached /\ DomainOnly

CheckCache(w) ==
  /\ pc[w] = "check"
  /\ \/ cached # None /\ ReturnDomain(w, cached)
     \/ cached = None /\ Go(w, "fetch") /\ UNCHANGED <<mu, found>>
  /\ UNCHANGED cached /\ DomainOnly

FetchSucceeds(w) ==
  /\ pc[w] = "fetch" /\ host = "answers"
  /\ cached' = domain /\ ReturnDomain(w, domain)
  /\ DomainOnly

(* Mutants of FetchFails: no deadline; the mutex is kept.                   *)
FetchWithoutDeadline(w) ==
  /\ pc[w] = "fetch" /\ host = "refuses"
  /\ ReturnDomain(w, None)
  /\ UNCHANGED cached /\ DomainOnly

FetchKeepingLock(w) ==
  /\ pc[w] = "fetch" /\ host # "answers"
  /\ found' = [found EXCEPT ![w] = None] /\ Go(w, "report")
  /\ UNCHANGED <<mu, cached>> /\ DomainOnly

(* Unreachable, not 200, not JSON, no domain in it; or fetchTimeout.        *)
FetchFails(w) ==
  /\ pc[w] = "fetch" /\ host # "answers"
  /\ ReturnDomain(w, None)
  /\ UNCHANGED cached /\ DomainOnly

-----------------------------------------------------------------------------
(* The end of the pass.                                                     *)

URLFor(name, base) == [subdomain |-> name, domain |-> base, by |-> process]

(* Mutant of ReportActive: the error of Domain is logged and forgotten.     *)
ReportAnyway(w) ==
  /\ pc[w] = "report"
  /\ url' = [url EXCEPT ![at[w]] = URLFor(spec[w], found[w])]
  /\ EndPass(w)
  /\ UNCHANGED <<mu, cached, subdomain, pod, world>>

(* Without a domain the URL stays what it was; with or without, the pass is *)
(* repeated after requeueActive.                                            *)
ReportActive(w) ==
  /\ pc[w] = "report"
  /\ url' = IF found[w] = None THEN url
            ELSE [url EXCEPT ![at[w]] = URLFor(spec[w], found[w])]
  /\ EndPass(w)
  /\ UNCHANGED <<mu, cached, subdomain, pod, world>>

-----------------------------------------------------------------------------
(* The rest of the world.                                                   *)

Change == changes < MaxChanges /\ changes' = changes + 1

Edit(t) ==
  /\ Change
  /\ \E s \in Subdomains \ {subdomain[t]} :
        subdomain' = [subdomain EXCEPT ![t] = s]
  /\ queue' = queue \cup {t}
  /\ UNCHANGED <<passes, mu, cached, pod, url, Override, process, host, domain>>

HostChanges ==
  /\ Change
  /\ host' \in {"answers", "refuses", "silent"} /\ domain' \in Domains
  /\ UNCHANGED <<queue, passes, mu, cached, cluster, Override, process>>

Restart ==
  /\ Change /\ process' = process + 1
  /\ queue' = Tunnels /\ pc' = [w \in Workers |-> "idle"]
  /\ at' = Nothing /\ spec' = Nothing /\ found' = Nothing
  /\ mu' = None /\ cached' = None
  /\ UNCHANGED <<cluster, Override, host, domain>>

Pass(w) ==
  \/ ConvergePod(w) \/ OverrideDomain(w) \/ CheckCache(w)
  \/ FetchSucceeds(w) \/ FetchFails(w) \/ ReportActive(w)

Next ==
  \/ \E w \in Workers : Pass(w) \/ Lock(w) \/ \E t \in Tunnels : StartPass(w, t)
  \/ \E t \in Tunnels : Edit(t)
  \/ HostChanges \/ Restart

Spec == Init /\ [][Next]_vars

(* Goroutines run, the queue is first in first out, and sync.Mutex lets no  *)
(* waiter starve.  Nothing is assumed of the config host.                   *)
Fairness ==
  /\ \A w \in Workers : WF_vars(Pass(w)) /\ SF_vars(Lock(w))
  /\ \A t \in Tunnels : SF_vars(\E w \in Workers : StartPass(w, t))

FairSpec == Spec /\ Fairness

-----------------------------------------------------------------------------
(* Properties.                                                              *)

URLs == [subdomain : Subdomains, domain : Domains, by : Nat]

ResolverTypeOK ==
  /\ queue \subseteq Tunnels
  /\ pc \in [Workers -> {"idle", "converge", "domain", "check", "fetch", "report"}]
  /\ at \in [Workers -> Tunnels \cup {None}]
  /\ spec \in [Workers -> Subdomains \cup {None}]
  /\ found \in [Workers -> Domains \cup {None}]
  /\ mu \in Workers \cup {None} /\ cached \in Domains \cup {None}
  /\ Override \in Domains \cup {None} /\ process \in Nat
  /\ subdomain \in [Tunnels -> Subdomains]
  /\ pod \in [Tunnels -> Subdomains \cup {None}]
  /\ url \in [Tunnels -> URLs \cup {None}]
  /\ host \in {"answers", "refuses", "silent"} /\ domain \in Domains
  /\ changes \in Nat

(* "fetching it at most once per process" (resolver.go): the URLs that one  *)
(* process has written agree on the domain, whichever worker wrote them and *)
(* whatever the host has answered since.                                    *)
UrlsAgree ==
  \A t, u \in Tunnels :
    url[t] # None /\ url[u] # None /\ url[t].by = url[u].by
      => url[t].domain = url[u].domain

(* "A failed fetch must therefore never block pod creation" (resolver.go):  *)
(* every tunnel gets the pod it asks for, although other passes wait for    *)
(* the mutex and the host may take the request and never answer it.         *)
PodsAreMade == \A t \in Tunnels : <>[](pod[t] = subdomain[t])

(* A failed fetch "only leaves status.url empty until the next successful   *)
(* resync" (DESIGN.md 9.2): with a host that answers in the end, or an      *)
(* override, every URL ends up with its tunnel's subdomain and the domain   *)
(* of this process, one left stale by an edit or a restart included.        *)
UrlsConverge ==
  <>[](Override # None \/ host = "answers")
    => \A t \in Tunnels :
         <>[](url[t] = URLFor(subdomain[t],
                              IF Override # None THEN Override ELSE cached))
=============================================================================
