----------------------------- MODULE MarketData -----------------------------
(***************************************************************************)
(* Asking the outside world for a price: the lookup that concurrent calls  *)
(* for one instrument share, the chain of providers it falls back along,   *)
(* the limiter that spaces the requests to a provider and keeps out of its *)
(* pauses, and the attempts of one request.  (internal/marketdata)         *)
(*                                                                         *)
(* Instants are countdowns that Tick lowers: 0 is "now or before".  What a *)
(* provider answers is its kind; a 429 carries how long it asks to be left *)
(* alone, 0 when it does not say.  A caller asks for one price at a time.  *)
(***************************************************************************)
EXTENDS Integers, FiniteSetsExt

CONSTANTS
  Callers, Symbols,
  ChainLength, \* how many providers serve an instrument: 1 .. ChainLength, in order
  Spacing,     \* minInterval of a limiter
  MaxWait,     \* maxInlineWait
  Penalty,     \* defaultPenalty
  Hints,       \* what a 429 may ask for
  TTL,         \* quoteTTL
  Backoff, MaxAttempts,
  MaxCalls, MaxCancels,  \* bounds on what the callers do
  Nil

Outcome == {"quote", "not found", "error", "limited", "cancelled", "panicked"}

ASSUME MarketDataAssumption ==
  /\ ChainLength \in Nat \ {0} /\ MaxAttempts \in Nat \ {0}
  /\ {Spacing, MaxWait, Penalty, TTL, Backoff} \subseteq Nat
  /\ Hints \subseteq Nat /\ 0 \in Hints
  /\ Nil \notin Callers \cup Outcome \cup {"abandoned"}

Providers == 1 .. ChainLength

VARIABLES
  call,      \* call[c]: where caller c is in its Quote
  inflight,  \* inflight[i]: the caller that leads the lookup of i
  fresh,     \* fresh[i]: how long the cached quote may still be served
  next,      \* next[p]: until a request to p may start after the previous one
  paused,    \* paused[p]: until the pause p asked for is over
  asking,    \* asking[p]: the caller whose request p is answering
  said,      \* history: said[c], the providers that told c's lookup they do not know
  calls, cancels

marketVars == <<call, inflight, fresh, next, paused, asking, said, calls, cancels>>

Response == [kind : {"ok", "spent", "bad", "not found", "refused", "failed"}, after : {0}]
              \cup [kind : {"429"}, after : Hints]
NoCall == [at |-> "idle", of |-> Nil, p |-> 1, attempt |-> 1, nap |-> 0, resp |-> Nil,
           got |-> Nil, unknown |-> TRUE, limited |-> FALSE, cancelled |-> FALSE]

MarketInit ==
  /\ call = [c \in Callers |-> NoCall]
  /\ inflight = [i \in Symbols |-> Nil]
  /\ fresh = [i \in Symbols |-> 0]
  /\ next = [p \in Providers |-> 0]
  /\ paused = [p \in Providers |-> 0]
  /\ asking = [p \in Providers |-> Nil]
  /\ said = [c \in Callers |-> {}]
  /\ calls = 0
  /\ cancels = 0

lookupVars == <<inflight, fresh>>
limiterVars == <<next, paused, asking>>
bounds == <<calls, cancels>>

Go(c, at) == call' = [call EXCEPT ![c].at = at]

-----------------------------------------------------------------------------
(* The shared lookup: Service.Quote and lead *)

Quote(c, i) ==
  /\ call[c].at = "idle"
  /\ calls < MaxCalls
  /\ calls' = calls + 1
  /\ call' = [call EXCEPT ![c] = [NoCall EXCEPT !.at = "enter", !.of = i]]
  /\ said' = [said EXCEPT ![c] = {}]
  /\ UNCHANGED <<lookupVars, limiterVars, cancels>>

\* The caller's context is cancelled; each wait notices by itself.
Cancel(c) ==
  /\ call[c].at # "idle"
  /\ ~call[c].cancelled
  /\ cancels < MaxCancels
  /\ cancels' = cancels + 1
  /\ call' = [call EXCEPT ![c].cancelled = TRUE]
  /\ UNCHANGED <<lookupVars, limiterVars, said, calls>>

Return(c, outcome) == call' = [call EXCEPT ![c].at = "returned", ![c].got = outcome]

\* Defect: whoever finds no quote in the cache looks it up.
EnterAlone(c) ==
  /\ call[c].at = "enter"
  /\ IF fresh[call[c].of] > 0
     THEN Return(c, "quote") /\ UNCHANGED inflight
     ELSE Go(c, "acquire") /\ inflight' = [inflight EXCEPT ![call[c].of] = c]
  /\ UNCHANGED <<fresh, limiterVars, said, bounds>>

\* The critical section: a quote in the cache, a lookup to wait for, or one to
\* lead.
Enter(c) ==
  LET i == call[c].of
  IN /\ call[c].at = "enter"
     /\ \/ fresh[i] > 0 /\ Return(c, "quote") /\ UNCHANGED inflight
        \/ fresh[i] = 0 /\ inflight[i] # Nil /\ Go(c, "wait") /\ UNCHANGED inflight
        \/ /\ fresh[i] = 0 /\ inflight[i] = Nil
           /\ Go(c, "acquire")
           /\ inflight' = [inflight EXCEPT ![i] = c]
     /\ UNCHANGED <<fresh, limiterVars, said, bounds>>

Waiters(i) == {w \in Callers : call[w].at = "wait" /\ call[w].of = i /\ call[w].got = Nil}

Abandoned(c, outcome) == outcome = "panicked" \/ (call[c].cancelled /\ outcome = "cancelled")

\* Defect: the entry outlives the lookup that was abandoned.
ReleasedAnswered(i, outcome) ==
  IF outcome \in {"quote", "not found", "error", "limited"}
  THEN [inflight EXCEPT ![i] = Nil]
  ELSE inflight

Released(i, outcome) == [inflight EXCEPT ![i] = Nil]

\* The leader's deferred function: the entry goes, a quote is kept, and the
\* closed channel gives every waiter the outcome, or says it was abandoned.
Publish(c, outcome) ==
  LET i == call[c].of
      told == IF Abandoned(c, outcome) THEN "abandoned" ELSE outcome
  IN /\ inflight' = Released(i, outcome)
     /\ fresh' = IF outcome = "quote" THEN [fresh EXCEPT ![i] = TTL] ELSE fresh
     /\ call' = [w \in Callers |->
                   IF w = c THEN [NoCall EXCEPT !.at = "returned", !.of = i, !.got = outcome,
                                              !.cancelled = call[c].cancelled]
                   ELSE IF w \in Waiters(i) THEN [call[w] EXCEPT !.got = told] ELSE call[w]]
     /\ said' = [w \in Callers |-> IF w \in Waiters(i) THEN said[c] ELSE said[w]]

\* A waiter reads the outcome, asks again after an abandoned lookup, or gives
\* up with its own context.
Wake(c) ==
  /\ call[c].at = "wait"
  /\ \/ /\ call[c].cancelled
        /\ Return(c, "cancelled")
     \/ /\ call[c].got = "abandoned"
        /\ ~call[c].cancelled
        /\ call' = [call EXCEPT ![c].at = "enter", ![c].got = Nil]
     \/ /\ call[c].got \notin {Nil, "abandoned"}
        /\ Return(c, call[c].got)
  /\ UNCHANGED <<lookupVars, limiterVars, said, bounds>>

Leave(c) ==
  /\ call[c].at = "returned"
  /\ call' = [call EXCEPT ![c] = NoCall]
  /\ said' = [said EXCEPT ![c] = {}]
  /\ UNCHANGED <<lookupVars, limiterVars, bounds>>

-----------------------------------------------------------------------------
(* The limiter *)

Ready(p) == Max({next[p], paused[p]})
Paused(p, d) == [paused EXCEPT ![p] = Max({@, d})]

\* The start is taken at once, slept for, or too far away.
Acquire(c) ==
  LET p == call[c].p
  IN /\ call[c].at = "acquire"
     /\ \/ /\ Ready(p) = 0
           /\ next' = [next EXCEPT ![p] = Spacing]
           /\ Go(c, "slot")
        \/ /\ Ready(p) \in 1 .. MaxWait
           /\ call' = [call EXCEPT ![c].at = "sleep", ![c].nap = Ready(p)]
           /\ UNCHANGED next
        \/ /\ Ready(p) > MaxWait
           /\ call' = [call EXCEPT ![c].at = "failed", ![c].unknown = FALSE, ![c].limited = TRUE]
           /\ UNCHANGED next
     /\ UNCHANGED <<lookupVars, paused, asking, said, bounds>>

Sleep(c) ==
  /\ call[c].at = "sleep"
  /\ \/ call[c].nap = 0 /\ Go(c, "acquire")
     \/ call[c].cancelled /\ call' = [call EXCEPT ![c].at = "failed", ![c].nap = 0]
  /\ UNCHANGED <<lookupVars, limiterVars, said, bounds>>

\* The request starts once the slot of the provider is free.
StartRequest(c) ==
  LET p == call[c].p
  IN /\ call[c].at = "slot"
     /\ \/ asking[p] = Nil /\ asking' = [asking EXCEPT ![p] = c] /\ Go(c, "request")
        \/ call[c].cancelled /\ Go(c, "failed") /\ UNCHANGED asking
     /\ UNCHANGED <<lookupVars, next, paused, said, bounds>>

-----------------------------------------------------------------------------
(* One request: getJSON, and what a provider makes of the answer *)

Again(c) == call[c].attempt < MaxAttempts
Retry(c, at, nap) ==
  call' = [call EXCEPT ![c].at = at, ![c].nap = nap, ![c].resp = Nil, ![c].attempt = @ + 1]
Fails(c, unknown, limited) ==
  call' = [call EXCEPT ![c].at = "failed", ![c].resp = Nil, ![c].unknown = @ /\ unknown,
                            ![c].limited = @ \/ limited]

\* No answer: the slot is given back and the attempt counted, unless the caller
\* gave up.
NoAnswer(c) ==
  /\ call[c].at = "request"
  /\ asking' = [asking EXCEPT ![call[c].p] = Nil]
  /\ \/ call[c].cancelled /\ Go(c, "failed")
     \/ ~call[c].cancelled /\ Again(c) /\ Retry(c, "backoff", Backoff * call[c].attempt)
     \/ ~call[c].cancelled /\ ~Again(c) /\ Fails(c, FALSE, FALSE)
  /\ UNCHANGED <<lookupVars, next, paused, said, bounds>>

\* The answer is in and the slot given back; the limiter hears of it after.
Answer(c, r) ==
  /\ call[c].at = "request"
  /\ asking' = [asking EXCEPT ![call[c].p] = Nil]
  /\ call' = [call EXCEPT ![c].at = "observe", ![c].resp = r]
  /\ UNCHANGED <<lookupVars, next, paused, said, bounds>>

Observe(c) ==
  LET r == call[c].resp
  IN /\ call[c].at = "observe"
     /\ paused' = CASE r.kind = "429" -> Paused(call[c].p, r.after)
                    [] r.kind = "spent" -> Paused(call[c].p, Penalty)
                    [] OTHER -> paused
     /\ Go(c, "handle")
     /\ UNCHANGED <<lookupVars, next, asking, said, bounds>>

\* A 429 is tried again, after the pause it asked for or a short one, and in
\* the end pauses the provider; a failure is tried again; a refusal is not.
Handle(c) ==
  LET r == call[c].resp
      p == call[c].p
  IN /\ call[c].at = "handle"
     /\ r.kind \notin {"ok", "spent"}
     /\ \/ /\ r.kind = "429" /\ Again(c)
           /\ IF r.after = 0
              THEN Retry(c, "backoff", Backoff * call[c].attempt)
              ELSE Retry(c, "acquire", 0)
           /\ UNCHANGED <<paused, said>>
        \/ /\ r.kind = "429" /\ ~Again(c)
           /\ paused' = Paused(p, IF r.after = 0 THEN Penalty ELSE r.after)
           /\ Fails(c, FALSE, TRUE)
           /\ UNCHANGED said
        \/ r.kind = "failed" /\ Again(c) /\ Retry(c, "backoff", Backoff * call[c].attempt) /\ UNCHANGED <<paused, said>>
        \/ r.kind = "failed" /\ ~Again(c) /\ Fails(c, FALSE, FALSE) /\ UNCHANGED <<paused, said>>
        \/ r.kind \in {"refused", "bad"} /\ Fails(c, FALSE, FALSE) /\ UNCHANGED <<paused, said>>
        \/ /\ r.kind = "not found" /\ Fails(c, TRUE, FALSE)
           /\ said' = [said EXCEPT ![c] = @ \cup {p}]
           /\ UNCHANGED paused
     /\ UNCHANGED <<lookupVars, next, asking, bounds>>

\* The backoff does not hear of a cancellation.
EndBackoff(c) ==
  /\ call[c].at = "backoff"
  /\ call[c].nap = 0
  /\ Go(c, "acquire")
  /\ UNCHANGED <<lookupVars, limiterVars, said, bounds>>

-----------------------------------------------------------------------------
(* The chain: fetchQuote *)

Good(c) ==
  /\ call[c].at = "handle"
  /\ call[c].resp.kind \in {"ok", "spent"}
  /\ Publish(c, "quote")
  /\ UNCHANGED <<limiterVars, bounds>>

\* A provider that panics leaves the entry to the deferred function.
Panic(c) ==
  /\ call[c].at = "handle"
  /\ call[c].resp.kind = "bad"
  /\ Publish(c, "panicked")
  /\ UNCHANGED <<limiterVars, bounds>>

\* Defect: one provider that does not know speaks for the others.
ChainFailureAny(c) ==
  IF said[c] # {} THEN "not found" ELSE IF call[c].limited THEN "limited" ELSE "error"

\* Not found is said only when every provider said so.
ChainFailure(c) ==
  IF call[c].unknown THEN "not found" ELSE IF call[c].limited THEN "limited" ELSE "error"

\* The caller's own end comes first; then the next provider, or the failures.
Fallback(c) ==
  /\ call[c].at = "failed"
  /\ \/ call[c].cancelled /\ Publish(c, "cancelled")
     \/ /\ ~call[c].cancelled /\ call[c].p < ChainLength
        /\ call' = [call EXCEPT ![c].at = "acquire", ![c].p = @ + 1, ![c].attempt = 1]
        /\ UNCHANGED <<lookupVars, said>>
     \/ ~call[c].cancelled /\ call[c].p = ChainLength /\ Publish(c, ChainFailure(c))
  /\ UNCHANGED <<limiterVars, bounds>>

-----------------------------------------------------------------------------
Less(n) == Max({0, n - 1})

Tick ==
  /\ fresh' = [i \in Symbols |-> Less(fresh[i])]
  /\ next' = [p \in Providers |-> Less(next[p])]
  /\ paused' = [p \in Providers |-> Less(paused[p])]
  /\ call' = [c \in Callers |-> [call[c] EXCEPT !.nap = Less(@)]]
  /\ <<fresh', next', paused', call'>> # <<fresh, next, paused, call>>
  /\ UNCHANGED <<inflight, asking, said, bounds>>

Step(c) ==
  \/ Enter(c) \/ Wake(c) \/ Leave(c)
  \/ Acquire(c) \/ Sleep(c) \/ StartRequest(c) \/ Observe(c) \/ Handle(c) \/ EndBackoff(c)
  \/ Good(c) \/ Fallback(c)

Replies(c) == NoAnswer(c) \/ \E r \in Response : Answer(c, r)

MarketNext ==
  \/ \E c \in Callers : \/ Step(c) \/ Replies(c) \/ Panic(c) \/ Cancel(c)
                        \/ \E i \in Symbols : Quote(c, i)
  \/ Tick

MarketSpec == MarketInit /\ [][MarketNext]_marketVars

\* The goroutines run, time passes, and the client's timeout ends a request
\* that is not answered.
MarketFairness == /\ WF_marketVars(Tick)
            /\ \A c \in Callers : WF_marketVars(Step(c) \/ Replies(c))

FairMarketSpec == MarketSpec /\ MarketFairness

-----------------------------------------------------------------------------
(* Properties *)

Leading == {"acquire", "sleep", "slot", "request", "observe", "handle", "backoff", "failed"}

MarketTypeOK ==
  /\ \A c \in Callers : /\ call[c].at \in Leading \cup {"idle", "enter", "wait", "returned"}
                        /\ call[c].p \in Providers /\ call[c].attempt \in 1 .. MaxAttempts
                        /\ call[c].resp \in Response \cup {Nil}
                        /\ call[c].got \in Outcome \cup {Nil, "abandoned"}
  /\ inflight \in [Symbols -> Callers \cup {Nil}]
  /\ fresh \in [Symbols -> 0 .. TTL]
  /\ asking \in [Providers -> Callers \cup {Nil}]
  /\ said \in [Callers -> SUBSET Providers]

\* "Concurrent calls for the same instrument share one lookup" (the comment of
\* Service.Quote): the callers that lead are exactly those the table names, and
\* a caller that waits has a lookup to wait for.
SharedLookup ==
  /\ \A c \in Callers : call[c].at \in Leading => inflight[call[c].of] = c
  /\ \A i \in Symbols : inflight[i] # Nil => call[inflight[i]].at \in Leading
  /\ \A i \in Symbols : Waiters(i) # {} => inflight[i] # Nil

\* "A waiter does not inherit the leader's cancellation" (Service.Quote), and
\* "not found" is never a claim nobody made (chainFailure): a caller is told
\* it was cancelled when it was, and that the instrument is unknown when every
\* provider of its lookup said so.
OwnOutcome ==
  \A c \in Callers : call[c].at = "returned" =>
    /\ call[c].got = "cancelled" => call[c].cancelled
    /\ call[c].got = "not found" => said[c] = Providers

\* A call returns in the end, whoever it waits for and however that one ends.
EveryCallReturns == \A c \in Callers : call[c].at # "idle" ~> call[c].at = "idle"

=============================================================================
