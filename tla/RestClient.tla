----------------------------- MODULE RestClient -----------------------------
(***************************************************************************)
(* A venue's REST client (crates/perps-exchanges/src/<venue>/client.rs):    *)
(* every request is execute_with_retry around RateLimiter::execute, so each *)
(* attempt waits for the limiter and is recorded by it.  The request        *)
(* modelled is the one that fills the client's SymbolsCache, which tasks    *)
(* that share the client start on their own when they find it empty.        *)
(*                                                                         *)
(* A definition right before another with the same parameters that is used  *)
(* nowhere else (DelayConstant, Overwritten) is a slip that would break a     *)
(* property.                                                                *)
(***************************************************************************)
EXTENDS RateLimiter

CONSTANTS
    MaxRetries,     \* RetryConfig::max_retries
    BaseDelay,      \* RetryConfig::base_delay_ms
    Listings        \* the sets of symbols the exchange may answer with

ASSUME MaxRetriesAssumption == MaxRetries \in Nat
ASSUME BaseDelayAssumption == BaseDelay \in Nat \ {0}

VARIABLES
    call,           \* caller -> where its get_or_init is
    symbols,        \* the cached listing, Unset before initialize
    firstAsked      \* history: when the call's first attempt was sent

clientVars == <<call, symbols, firstAsked>>
restVars == <<rlVars, clientVars>>

Unset == "unset"
Idling == [at |-> "idle", attempt |-> 0, until |-> 0]

RestInit ==
    /\ Init
    /\ call = [c \in Callers |-> Idling]
    /\ symbols = Unset
    /\ firstAsked = [c \in Callers |-> 0]

-----------------------------------------------------------------------------
(* SymbolsCache::get_or_init finds no symbols: it fetches them.             *)
Miss(c) ==
    /\ call[c].at = "idle"
    /\ symbols = Unset
    /\ call' = [call EXCEPT ![c].at = "limiter"]
    /\ UNCHANGED <<rlVars, symbols, firstAsked>>

(* RateLimiter::execute, once for every attempt.                            *)
EnterLimiter(c) ==
    /\ call[c].at = "limiter"
    /\ Calculate(c)
    /\ call' = [call EXCEPT ![c].at = "limited"]
    /\ UNCHANGED <<symbols, firstAsked>>

Send(c) ==
    /\ call[c].at = "limited"
    /\ Record(c)
    /\ call' = [call EXCEPT ![c].at = "sent"]
    /\ firstAsked' = IF call[c].attempt = 0 THEN [firstAsked EXCEPT ![c] = now] ELSE firstAsked
    /\ UNCHANGED symbols

Overwritten(listing) == listing

(* OnceCell::set: the first to have its answer wins, others are discarded.  *)
Initialized(listing) == IF symbols = Unset THEN listing ELSE symbols

Succeed(c) ==
    /\ call[c].at = "sent"
    /\ \E listing \in Listings : symbols' = Initialized(listing)
    /\ call' = [call EXCEPT ![c] = Idling]
    /\ UNCHANGED <<rlVars, firstAsked>>

DelayConstant(c) ==
    [call EXCEPT ![c] = [at |-> "backoff", attempt |-> @.attempt + 1, until |-> now + BaseDelay]]

(* The delay doubles with every attempt.                                    *)
BackedOff(c) ==
    [call EXCEPT ![c] = [at      |-> "backoff",
                         attempt |-> @.attempt + 1,
                         until   |-> now + BaseDelay * 2 ^ @.attempt]]

(* The error's text has "429" in it.                                        *)
TooManyRequests(c) ==
    /\ call[c].at = "sent"
    /\ call[c].attempt < MaxRetries
    /\ call' = BackedOff(c)
    /\ UNCHANGED <<rlVars, symbols, firstAsked>>

(* Any other error, or one too many: it is returned, the cache stays empty. *)
Fail(c) ==
    /\ call[c].at = "sent"
    /\ call' = [call EXCEPT ![c] = Idling]
    /\ UNCHANGED <<rlVars, symbols, firstAsked>>

WakeUp(c) ==
    /\ call[c].at = "backoff"
    /\ call[c].until <= now
    /\ call' = [call EXCEPT ![c].at = "limiter"]
    /\ UNCHANGED <<rlVars, symbols, firstAsked>>

-----------------------------------------------------------------------------
RestNext ==
    \/ Tick /\ UNCHANGED clientVars
    \/ \E c \in Callers :
          \/ Miss(c) \/ EnterLimiter(c) \/ Send(c)
          \/ Succeed(c) \/ TooManyRequests(c) \/ Fail(c) \/ WakeUp(c)

RestSpec == RestInit /\ [][RestNext]_restVars

-----------------------------------------------------------------------------
(* The k-th retry of a call is sent no earlier than the k delays, each      *)
(* twice the one before, after its first attempt: the limiter's own waits   *)
(* come on top and never replace a delay.                                   *)
RetriesBackOff ==
    \A c \in Callers : call[c].at = "sent" =>
        now >= firstAsked[c] + BaseDelay * (2 ^ call[c].attempt - 1)

(* Callers that find the cache empty together each fetch the symbols; once  *)
(* one has set them they never change, whatever later answers say.          *)
SymbolsNeverChange == [][symbols # Unset => symbols' = symbols]_symbols
=============================================================================
