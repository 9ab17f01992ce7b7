---------------------------- MODULE LegalSearch -----------------------------
(***************************************************************************)
(* Looking up the law: LegalSourceRouter sends a question to the corpus,   *)
(* to the live web, or to both; WebLawGateway asks its cache, then the     *)
(* failover chain of search providers, reads the pages of named sources    *)
(* and keeps the result.  Searches run at the same time and share the      *)
(* breaker and the cooldown of every provider and the one cache.           *)
(* Passages are represented by the source they were cut from.              *)
(***************************************************************************)
EXTENDS CircuitBreaker, Sequences, FiniteSets

CONSTANTS Searchers,     \* concurrent searches
          Chain,         \* sequence of providers
          Asked,         \* questions: tenant, text, domain and top_k
          Routing,       \* "web", "corpus" or "both" for each domain
          Sources,       \* hosts, numbered in preferred_order
          AllowedHosts,  \* allowed_domains
          MaxPages,      \* max_pages_per_query
          CooldownTime, TtlTime, MaxEntries,
          LastTick, MaxSearches   \* bounds

ASSUME SearchAssumption ==
    /\ Chain \in Seq({Chain[i] : i \in DOMAIN Chain}) /\ Chain # << >>
    /\ AllowedHosts \subseteq Sources /\ Sources \subseteq Nat
    /\ \A q \in Asked : Routing[q.domain] \in {"web", "corpus", "both"}
    /\ {CooldownTime, TtlTime, MaxEntries, LastTick, MaxSearches} \subseteq Nat

Provider == {Chain[i] : i \in DOMAIN Chain}

VARIABLES
    clock,
    breaker,   \* of each provider
    until,     \* ProviderCooldown: when each provider may be asked again
    entries,   \* TtlCache: entries, the least recently used first
    search,    \* where each search is
    streak,    \* history: failures each provider's breaker was told since a success
    searches

searchVars == <<clock, breaker, until, entries, search, streak, searches>>

NoQuestion == [tenant |-> 0, text |-> "none", domain |-> "none", top_k |-> 0]
NoSearch == [pc |-> "idle", asked |-> NoQuestion, next |-> 1, hits |-> {}, passed |-> {},
             live |-> {}, for |-> NoQuestion, age |-> 0, kept |-> FALSE, corpus |-> FALSE]

SearchInit ==
    /\ clock = 0
    /\ breaker = [p \in Provider |-> Closed]
    /\ until = [p \in Provider |-> 0]
    /\ entries = << >>
    /\ search = [s \in Searchers |-> NoSearch]
    /\ streak = [p \in Provider |-> 0]
    /\ searches = 0

\* The first n of a set of sources, by rank.
FirstOf(S, n) == {x \in S : Cardinality({y \in S : y < x}) < n}

Set(s, change) == search' = [search EXCEPT ![s] = change]
Here == UNCHANGED <<clock, breaker, until, entries, streak, searches>>

-----------------------------------------------------------------------------
(* The router                                                              *)

_where(q) == Routing[q.domain]

\* A question for the corpus is answered there; "both" asks the corpus first.
Ask(s, q) ==
    /\ search[s].pc \in {"idle", "done"}
    /\ searches < MaxSearches
    /\ searches' = searches + 1
    /\ Set(s, [NoSearch EXCEPT !.pc = IF _where(q) = "corpus" THEN "done" ELSE "cache",
                               !.asked = q, !.corpus = _where(q) # "web"])
    /\ UNCHANGED <<clock, breaker, until, entries, streak>>

\* The live half is over: without a passage a "web" question goes to the corpus.
Answer(s, live, for, age, kept) ==
    Set(s, [search[s] EXCEPT !.pc = "done", !.live = live, !.for = for, !.age = age,
                             !.kept = kept, !.corpus = @ \/ live = {}])

-----------------------------------------------------------------------------
(* WebLawGateway and its cache                                             *)

\* Not top_k, which is applied on reading.
_cache_key(q) == <<q.tenant, q.domain, q.text>>

Positions(k) == {i \in DOMAIN entries : entries[i].key = k}
Without(k) ==
    IF Positions(k) = {} THEN entries
    ELSE LET i == CHOOSE i \in Positions(k) : TRUE
         IN SubSeq(entries, 1, i - 1) \o SubSeq(entries, i + 1, Len(entries))

\* TtlCache.get: a hit becomes the most recently used, an expired entry goes.
get(s) ==
    LET q == search[s].asked
        k == _cache_key(q)
    IN /\ search[s].pc = "cache"
       /\ \/ /\ \E i \in Positions(k) :
                /\ entries[i].expires > clock
                /\ entries' = Append(Without(k), entries[i])
                /\ Answer(s, FirstOf(entries[i].refs, q.top_k), entries[i].for,
                          clock - (entries[i].expires - TtlTime), TRUE)
          \/ /\ \A i \in Positions(k) : entries[i].expires <= clock
             /\ entries' = Without(k)
             /\ Set(s, [search[s] EXCEPT !.pc = "chain"])
       /\ UNCHANGED <<clock, breaker, until, streak, searches>>

\* TtlCache.put, with the oldest entries dropped.
put(k, e) ==
    LET all == Append(Without(k), e)
    IN SubSeq(all, IF Len(all) > MaxEntries THEN Len(all) - MaxEntries + 1 ELSE 1, Len(all))

\* The pages that could be fetched, hold a passage around an anchor of the
\* question and are relevant enough: any of the first.
passages(hits) == SUBSET FirstOf(hits, MaxPages)

\* The pages are read in the order of their rank until top_k passages are found.
\* What is cached was cut to the top_k of this caller.
read_pages(s) ==
    LET q == search[s].asked
    IN /\ search[s].pc = "read"
       /\ \E found \in passages(search[s].hits) :
            LET refs == FirstOf(found, q.top_k)
            IN /\ entries' = put(_cache_key(q), [key |-> _cache_key(q), refs |-> refs, for |-> q,
                                                 expires |-> clock + TtlTime])
               /\ Answer(s, refs, q, 0, FALSE)
       /\ UNCHANGED <<clock, breaker, until, streak, searches>>

-----------------------------------------------------------------------------
(* FailoverSearchClient                                                    *)

At(s) == Chain[search[s].next]
Advance(s) == [search[s] EXCEPT !.pc = "chain", !.next = @ + 1, !.passed = @ \union {At(s)}]

\* A provider on cooldown, or whose breaker is open, is stepped over; the next
\* free one is asked.
Try(s) ==
    /\ search[s].pc = "chain"
    /\ search[s].next \in DOMAIN Chain
    /\ LET p == At(s)
       IN \/ /\ until[p] > clock \/ Refuses(breaker[p], clock)
             /\ Set(s, Advance(s))
             /\ UNCHANGED breaker
          \/ /\ until[p] <= clock /\ ~Refuses(breaker[p], clock)
             /\ breaker' = [breaker EXCEPT ![p] = before_call(@)]
             /\ Set(s, [search[s] EXCEPT !.pc = "sent"])
    /\ UNCHANGED <<clock, until, entries, streak, searches>>

Succeeded(p) ==
    /\ breaker' = [breaker EXCEPT ![p] = Closed]
    /\ streak' = [streak EXCEPT ![p] = 0]

\* Whatever no named source publishes is dropped.
allowed_hits(hits) == hits \cap AllowedHosts

\* A variant that uses the first answer there is.
usableAny(s, hits) == Set(s, [search[s] EXCEPT !.pc = "read", !.hits = allowed_hits(hits)])

\* Hits of named sources end the chain; others count as nothing.
usable(s, hits) ==
    \/ /\ allowed_hits(hits) # {}
       /\ Set(s, [search[s] EXCEPT !.pc = "read", !.hits = allowed_hits(hits)])
    \/ /\ allowed_hits(hits) = {}
       /\ Set(s, Advance(s))

block(p) == until' = [until EXCEPT ![p] = clock + CooldownTime]

\* The provider's answer.  A spent quota or a refused key puts it on cooldown and
\* tells the breaker nothing; a readable status is a success before the body is
\* read, an unreadable body then a failure.
request(s) ==
    /\ search[s].pc = "sent"
    /\ LET p == At(s)
       IN \/ \E hits \in SUBSET Sources :
                Succeeded(p) /\ usable(s, hits) /\ UNCHANGED until
          \/ /\ block(p)
             /\ Set(s, Advance(s))
             /\ UNCHANGED <<breaker, streak>>
          \/ /\ \/ /\ breaker' = [breaker EXCEPT ![p] = record_failure(@, clock)]
                   /\ streak' = [streak EXCEPT ![p] = IF @ < failure_threshold THEN @ + 1 ELSE @]
                \/ /\ breaker' = [breaker EXCEPT ![p] = record_failure(Closed, clock)]
                   /\ streak' = [streak EXCEPT ![p] = 1]
             /\ Set(s, Advance(s))
             /\ UNCHANGED until
    /\ UNCHANGED <<clock, entries, searches>>

\* Every provider was stepped over: the gateway raises, nothing is cached.
Exhausted(s) ==
    /\ search[s].pc = "chain"
    /\ search[s].next \notin DOMAIN Chain
    /\ Answer(s, {}, NoQuestion, 0, FALSE)
    /\ Here

TimePasses ==
    /\ clock < LastTick
    /\ clock' = clock + 1
    /\ UNCHANGED <<breaker, until, entries, search, streak, searches>>

SearchNext ==
    \/ TimePasses
    \/ \E s \in Searchers :
        \/ get(s) \/ Try(s) \/ request(s) \/ read_pages(s) \/ Exhausted(s)
        \/ \E q \in Asked : Ask(s, q)

SearchSpec == SearchInit /\ [][SearchNext]_searchVars

-----------------------------------------------------------------------------
(* Properties                                                              *)

\* Breakers are in one of their states; the cache is bounded and holds a key
\* once.
SearchTypeOK ==
    /\ clock \in 0..LastTick
    /\ \A p \in Provider : breaker[p].state \in CircuitState /\ breaker[p].opened <= clock
    /\ Len(entries) <= MaxEntries
    /\ \A i, j \in DOMAIN entries : entries[i].key = entries[j].key => i = j
    /\ \A s \in Searchers : search[s].live \subseteq AllowedHosts

\* However late the results of concurrent calls are reported, a breaker holds
\* calls back exactly when the failures since the last success have reached the
\* threshold.
OpenIffFailing ==
    \A p \in Provider : (breaker[p].state # "closed") = (streak[p] >= failure_threshold)

\* What a search quotes was found for the same tenant and the same question, by
\* itself or by an earlier search whose entry had not expired.
AnswersOwnQuestion ==
    \A s \in Searchers : search[s].pc = "done" /\ search[s].live # {} =>
        LET q == search[s].asked
            f == search[s].for
        IN /\ q.tenant = f.tenant /\ q.text = f.text /\ q.domain = f.domain
           /\ IF search[s].kept THEN search[s].age < TtlTime ELSE f = q

\* A question that should have been answered from the web is answered from the
\* corpus only after every engine had its turn, unless pages of a named source,
\* read now or kept in the cache, held no passage.
EveryEngineHadItsTurn ==
    \A s \in Searchers :
        LET done == search[s]
        IN done.pc = "done" /\ _where(done.asked) # "corpus" /\ done.live = {} =>
            done.passed = Provider \/ done.hits # {} \/ done.kept

\* However two searches interleave over one cache, one chain and its breakers,
\* what they return is their own and they fall back only when they must.
SearchIsSound == SearchTypeOK /\ AnswersOwnQuestion /\ EveryEngineHadItsTurn
=============================================================================
