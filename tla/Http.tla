-------------------------------- MODULE Http --------------------------------
(***************************************************************************)
(* Outgoing HTTP: document fetches (fetch/src/lib.rs) with their retry      *)
(* schedule (http/retry.rs), per-host pacing (http/limiter.rs) and          *)
(* destination guard (destination.rs), and the hosted embedding providers'  *)
(* requests (embed/src/http_helper.rs), which share the retry schedule but  *)
(* neither pacing nor guard.                                                *)
(*                                                                          *)
(* A request has one of three kinds: "any" (operator-configured URL),       *)
(* "public" (a URL a feed chose) and "embed".  Time is counted down in      *)
(* whole units; every sleep, cooldown and token bucket is a number of them. *)
(***************************************************************************)
EXTENDS Integers, FiniteSets

CONSTANTS
    Requests,
    Hosts,
    Literal,        \* the hosts that are IP literals
    Addresses,      \* [Hosts -> SUBSET {"public", "private"}]: what a host resolves to
    Asks,           \* [Requests -> the <<kind, host>> pairs it may be]
    Hints,          \* the Retry-After values servers send; NoHint is no (usable) header
    Backoffs,       \* the delays backon may propose
    MaxRetries,     \* http.max_retries
    MaxRedirects,   \* MAX_REDIRECTS
    Burst,          \* http.rate_limit.burst; one token per time unit
    InlineCap,      \* INLINE_RETRY_AFTER_CAP
    RetryBudget,    \* total_retry_budget
    CooldownCap,    \* COOLDOWN_CAP
    ParseCap        \* RETRY_AFTER_PARSE_CAP

NoHint == -1

ASSUME HttpAssumption ==
    /\ Literal \subseteq Hosts
    /\ Addresses \in [Hosts -> SUBSET {"public", "private"} \ {{}}]
    /\ Asks \in [Requests -> SUBSET ({"any", "public", "embed"} \X Hosts)]
    /\ Hints \subseteq Nat \cup {NoHint} /\ Backoffs \subseteq Nat
    /\ {MaxRetries, MaxRedirects, InlineCap, RetryBudget, CooldownCap, ParseCap} \subseteq Nat
    /\ Burst \in Nat \ {0}

VARIABLES
    cooldown,   \* [Hosts -> time left of the host's cooldown]
    promised,   \* history: [Hosts -> time left of the longest wait it asked for]
    bucket,     \* [Hosts -> tokens left]
    req         \* [Requests -> the request's state]

httpVars == <<cooldown, promised, bucket, req>>

NoError == [status |-> "none", retry_after |-> NoHint]

NewRequest(kind, h) ==
    [pc |-> "acquire", kind |-> kind, asked |-> h, host |-> h, hops |-> 0, tries |-> 0,
     spent |-> 0, wait |-> 0, err |-> NoError,
     slept |-> 0,        \* history: time really slept between attempts
     missed |-> FALSE,   \* history: a cooldown began after this attempt looked for one
     inside |-> FALSE]   \* history: a guarded hop went to an address that is not public

HttpInit ==
    /\ cooldown = [h \in Hosts |-> 0] /\ promised = [h \in Hosts |-> 0]
    /\ bucket = [h \in Hosts |-> Burst]
    /\ req = [r \in Requests |-> [pc |-> "unused"]]

At(r, pc) == req[r].pc = pc
InFlight == {r \in Requests : req[r].pc \notin {"unused", "done"}}
Min2(a, b) == IF a < b THEN a ELSE b

-----------------------------------------------------------------------------
(* The destination guard *)

is_blocked_destination(h) == h \in Literal /\ "private" \in Addresses[h]

(* Preflight and redirect policy look at IP literals, the resolver filters   *)
(* the addresses of names: an HTTP connector never resolves a literal.       *)
Refused(kind, h) == kind = "public" /\ is_blocked_destination(h)

(* Variant: an address list with a public address passes as it is. *)
GuardedResolverWhole(kind, h) ==
    IF kind = "public" /\ h \notin Literal /\ Addresses[h] = {"private"} THEN {} ELSE Addresses[h]

GuardedResolver(kind, h) ==
    IF kind = "public" /\ h \notin Literal THEN Addresses[h] \ {"private"} ELSE Addresses[h]

should_pace(h) == ~is_blocked_destination(h)

-----------------------------------------------------------------------------
(* One fetch *)

Finish(r, result) ==
    req' = [req EXCEPT ![r] = [pc |-> "done", result |-> result]]

(* fetch's preflight, and send_with_retry, which has none. *)
BeginRequest(r, kind, h) ==
    /\ At(r, "unused")
    /\ req' = [req EXCEPT ![r] =
         IF Refused(kind, h)
         THEN [pc |-> "done", result |-> "Blocked"]
         ELSE NewRequest(kind, h)]
    /\ UNCHANGED <<cooldown, promised, bucket>>

(* acquire, first half: the cooldown of the requested host is read once.     *)
(* Embedding requests and exempt hosts are not paced.                        *)
AcquireCooldown(r) ==
    /\ At(r, "acquire")
    /\ req' = IF req[r].kind = "embed" \/ ~should_pace(req[r].asked)
              THEN [req EXCEPT ![r].pc = "send", ![r].tries = @ + 1]
              ELSE [req EXCEPT ![r].pc = "token", ![r].wait = cooldown[req[r].asked],
                               ![r].missed = FALSE]
    /\ UNCHANGED <<cooldown, promised, bucket>>

(* acquire, second half: until_key_ready. *)
AcquireToken(r) ==
    /\ At(r, "token") /\ req[r].wait = 0
    /\ bucket[req[r].asked] > 0
    /\ bucket' = [bucket EXCEPT ![req[r].asked] = @ - 1]
    /\ req' = [req EXCEPT ![r].pc = "send", ![r].tries = @ + 1]
    /\ UNCHANGED <<cooldown, promised>>

(* send: one hop is connected, to one of the addresses the resolver left. *)
Connect(r) ==
    LET allowed == GuardedResolver(req[r].kind, req[r].host) IN
    /\ At(r, "send")
    /\ \/ /\ allowed = {}
          /\ Finish(r, "Blocked")
       \/ \E addr \in allowed :
          req' = [req EXCEPT ![r].pc = "answer", ![r].inside = req[r].kind = "public" /\ addr = "private"]
    /\ UNCHANGED <<cooldown, promised, bucket>>

(* The guarded redirect policy, and reqwest's own limit for the others. *)
Redirected(r, h) ==
    /\ At(r, "answer")
    /\ IF Refused(req[r].kind, h) THEN Finish(r, "Blocked")
       ELSE IF req[r].hops + 1 > MaxRedirects
       THEN req' = [req EXCEPT ![r].pc = "failed", ![r].err = [NoError EXCEPT !.status = "redirects"]]
       ELSE req' = [req EXCEPT ![r].pc = "send", ![r].host = h, ![r].hops = @ + 1]
    /\ UNCHANGED <<cooldown, promised, bucket>>

(* classify_response: 200, 304 and 404/410 end a fetch, each with an outcome *)
(* of its own that nothing below tells apart.  For send_with_retry only a    *)
(* success is one: there 304, 404 and 410 are statuses like any other.       *)
Answered(r) ==
    /\ At(r, "answer")
    /\ Finish(r, "Answered")
    /\ UNCHANGED <<cooldown, promised, bucket>>

parse_retry_after(hint) == IF hint = NoHint THEN NoHint ELSE Min2(hint, ParseCap)

(* Variant: a later, shorter hint replaces a longer cooldown. *)
NoteRetryAfterReplacing(h, d) == [cooldown EXCEPT ![h] = Min2(d, CooldownCap)]

note_retry_after(h, d) ==
    [cooldown EXCEPT ![h] = IF Min2(d, CooldownCap) > @ THEN Min2(d, CooldownCap) ELSE @]

(* Those that have already looked for a cooldown of host h. *)
Passed(h) == {q \in InFlight : req[q].pc \in {"token", "send"} /\ req[q].asked = h}

(* Any other status; "4xx" stands for those that no retry can mend.  A 429's *)
(* hint becomes the cooldown of the host that sent it, which after a         *)
(* redirect is not the one that was asked.                                   *)
StatusError(r, status, hint) ==
    LET d == parse_retry_after(hint)
        h == req[r].host
        noted == status = "429" /\ d # NoHint /\ req[r].kind # "embed"
    IN /\ At(r, "answer")
       /\ cooldown' = IF noted THEN note_retry_after(h, d) ELSE cooldown
       /\ promised' = IF noted /\ Min2(d, CooldownCap) > promised[h]
                      THEN [promised EXCEPT ![h] = Min2(d, CooldownCap)] ELSE promised
       /\ req' = [q \in Requests |->
            IF q = r THEN [req[q] EXCEPT !.pc = "failed", !.err = [status |-> status, retry_after |-> d]]
            ELSE IF noted /\ q \in Passed(h) THEN [req[q] EXCEPT !.missed = TRUE]
            ELSE req[q]]
       /\ UNCHANGED bucket

(* Refused or timed-out connections, bodies that break off. *)
NetworkError(r) ==
    /\ req[r].pc \in {"send", "answer"}
    /\ req' = [req EXCEPT ![r].pc = "failed", ![r].err = [NoError EXCEPT !.status = "network"]]
    /\ UNCHANGED <<cooldown, promised, bucket>>

-----------------------------------------------------------------------------
(* The retry loop *)

is_transient(err) == err.status \in {"429", "5xx", "network"}

(* map_outcome, and send_with_retry's last match. *)
map_outcome(err) == IF err.status = "429" THEN "RateLimited" ELSE "Unavailable"

(* The next attempt starts over at the URL that was asked for. *)
Sleep(r, wait, charge) ==
    req' = [req EXCEPT ![r].pc = "backoff", ![r].wait = wait, ![r].spent = @ + charge,
                       ![r].host = req[r].asked, ![r].hops = 0, ![r].err = NoError]

(* Variant: the fallback delay is slept without being charged. *)
retry_after_adjuster_uncharged(r, delay) ==
    LET hint == req[r].err.retry_after IN
    IF hint = NoHint
    THEN Sleep(r, delay, 0)
    ELSE IF hint > InlineCap \/ req[r].spent + hint > RetryBudget
    THEN Finish(r, map_outcome(req[r].err))
    ELSE Sleep(r, hint, hint)

(* A hint above the cap ends the loop; any other wait, hinted or backon's,   *)
(* is charged to the one budget before it is slept.                          *)
retry_after_adjuster(r, delay) ==
    LET hint == req[r].err.retry_after
        wait == IF hint = NoHint THEN delay ELSE hint
    IN IF hint > InlineCap \/ req[r].spent + wait > RetryBudget
       THEN Finish(r, map_outcome(req[r].err))
       ELSE Sleep(r, wait, wait)

Decide(r) ==
    /\ At(r, "failed")
    /\ IF is_transient(req[r].err) /\ req[r].tries <= MaxRetries
       THEN \E delay \in Backoffs : retry_after_adjuster(r, delay)
       ELSE Finish(r, map_outcome(req[r].err))
    /\ UNCHANGED <<cooldown, promised, bucket>>

Retry(r) ==
    /\ At(r, "backoff") /\ req[r].wait = 0
    /\ req' = [req EXCEPT ![r].pc = "acquire"]
    /\ UNCHANGED <<cooldown, promised, bucket>>

-----------------------------------------------------------------------------

Less(n) == IF n = 0 THEN 0 ELSE n - 1

(* One unit of time passes; expired cooldowns are gone (prune). *)
TimePasses ==
    /\ cooldown' = [h \in Hosts |-> Less(cooldown[h])]
    /\ promised' = [h \in Hosts |-> Less(promised[h])]
    /\ bucket' = [h \in Hosts |-> Min2(bucket[h] + 1, Burst)]
    /\ req' = [r \in Requests |->
         IF r \notin InFlight THEN req[r]
         ELSE [req[r] EXCEPT !.wait = Less(@),
                             !.slept = @ + IF At(r, "backoff") /\ req[r].wait > 0 THEN 1 ELSE 0]]

RequestStep(r) ==
    \/ AcquireCooldown(r) \/ AcquireToken(r) \/ Connect(r) \/ Answered(r)
    \/ \E h \in Hosts : Redirected(r, h)
    \/ \E status \in {"429", "5xx", "4xx"}, hint \in Hints : StatusError(r, status, hint)
    \/ NetworkError(r) \/ Decide(r) \/ Retry(r)

HttpNext ==
    \/ TimePasses
    \/ \E r \in Requests :
        \/ \E ask \in Asks[r] : BeginRequest(r, ask[1], ask[2])
        \/ RequestStep(r)

HttpSpec == HttpInit /\ [][HttpNext]_httpVars

-----------------------------------------------------------------------------
(* Properties *)

(* However a server mixes answers with and without Retry-After, one request  *)
(* sleeps no longer than its budget and is sent at most 1 + max_retries      *)
(* times ("an unbounded backoff on one document stalls every other store's   *)
(* indexing behind it").                                                     *)
RetriesAreBounded ==
    \A r \in InFlight : req[r].slept <= RetryBudget /\ req[r].tries <= MaxRetries + 1

(* A "public" request never connects to an address that is not globally      *)
(* routable: not on the first hop, after a redirect, on a retry, or through  *)
(* a name with addresses of both sorts.                                      *)
PublicStaysPublic ==
    \A r \in InFlight : ~req[r].inside

(* Once a host has answered 429 with a Retry-After, no paced request that    *)
(* looks for its cooldown afterwards goes out to it before that time is over *)
(* (up to COOLDOWN_CAP), whatever shorter hints the host has sent since.     *)
CooldownsHold ==
    [][\A r \in InFlight :
         /\ At(r, "send") /\ req'[r].pc = "answer"
         /\ req[r].hops = 0 /\ req[r].kind # "embed" /\ should_pace(req[r].asked)
         => promised[req[r].asked] = 0 \/ req[r].missed]_httpVars
=============================================================================
