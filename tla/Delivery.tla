------------------------------ MODULE Delivery ------------------------------
(***************************************************************************)
(* One call of _deliver_webhook (hermes_mesh/session_relay.py): the        *)
(* attempts, their time budget, the addresses each attempt tries through   *)
(* _pinned_request, and what the call reports about the message.           *)
(*                                                                         *)
(* Time is counted in fractions of a second since the call began.  The     *)
(* timeout of an attempt is the timeout of each of its blocking socket     *)
(* operations, not of all: connecting, the TLS handshake, the sends, and   *)
(* every read of the answer may take as long.  The code sets no limit on   *)
(* how many there are; PerAddress is the one the model has.                *)
(***************************************************************************)
EXTENDS Integers

CONSTANTS
    Addresses,  \* number of addresses the target resolved to
    PerAddress, \* bound: blocking socket operations on one address
    Retries,    \* _DELIVERY_RETRIES
    Timeout,    \* _DELIVERY_TIMEOUT
    Backoff,    \* _DELIVERY_BACKOFF
    Second,     \* the one-second floor of an attempt, and reserve of a sleep
    MaxLag      \* bound: how much longer than asked a sleep may last

ASSUME DeliveryAssumption ==
    /\ Addresses \in Nat \ {0}
    /\ PerAddress \in Nat /\ 2 <= PerAddress
    /\ Retries \in Nat \ {0}
    /\ Second \in Nat \ {0}
    /\ Timeout \in Nat /\ Second <= Timeout
    /\ Backoff \in Nat
    /\ MaxLag \in Nat /\ MaxLag < Second

\* The pauses are whole fractions of a second.
ASSUME PauseAssumption == \A n \in 0 .. Retries - 1 : Backoff * 2 ^ n \in Nat

VARIABLES
    pc,        \* where the call is
    now,       \* time.monotonic(), counted from the start of the call
    deadline,  \* deadline
    extended,  \* extended
    attempt,   \* attempt
    limit,     \* attempt_timeout
    address,   \* the address this attempt is trying, from 1
    used,      \* socket operations on this address that have ended
    failures,  \* history: exc, the exception each attempt ended with
    last,      \* last_exc of this attempt's _pinned_request
    outcome    \* what the call returns

budget == <<deadline, extended, attempt, failures>>
try == <<limit, address, used, last>>
vars == <<pc, now, budget, try, outcome>>

\* "refused" is a status token of _REFUSAL_REASONS, or a status that
\* _exception_to_reason has a reason for; "unknown" is any other token; "error"
\* is any other exception, an answer it has no reason for included.
Failure == {"timeout", "refused", "unknown", "error"}
Outcome == {"delivered", "unconfirmed", "refused", "unreachable"}

TypeOK ==
    /\ pc \in {"attempt", "connect", "answer", "next", "failed", "done"}
    /\ now \in Nat /\ deadline \in Nat /\ limit \in Nat
    /\ extended \in BOOLEAN
    /\ attempt \in 0 .. Retries - 1
    /\ address \in 1 .. Addresses
    /\ used \in 0 .. PerAddress - 1
    /\ pc = "connect" => used < PerAddress - 1
    /\ failures \in [0 .. Retries - 1 -> Failure \cup {"none"}]
    /\ \A n \in 0 .. attempt - 1 : failures[n] # "none"
    /\ last \in Failure \cup {"none"}
    /\ pc \in {"next", "failed"} => last # "none"
    /\ pc = "failed" => failures[attempt] = last
    /\ outcome \in Outcome \cup {"none"}

\* The target resolved to at least one address; a body is signed once.
Init ==
    /\ pc = "attempt" /\ now = 0
    /\ deadline = Timeout /\ extended = FALSE /\ attempt = 0
    /\ failures = [n \in 0 .. Retries - 1 |-> "none"]
    /\ limit = 0 /\ address = 1 /\ used = 0 /\ last = "none"
    /\ outcome = "none"

Larger(m, n) == IF m > n THEN m ELSE n
Smaller(m, n) == IF m < n THEN m ELSE n

Return(result) == pc' = "done" /\ outcome' = result

\* Time passes while a socket operation blocks, up to the attempt's timeout.
Blocks == now' \in now .. now + limit
TimesOut == now' = now + limit /\ last' = "timeout"
Breaks == Blocks /\ last' = "error"
-----------------------------------------------------------------------------
\* The top of the loop with nothing left of the budget: no answer is not a
\* statement about the peer.
OutOfTime ==
    /\ pc = "attempt" /\ deadline - now <= 0
    /\ Return("unconfirmed")
    /\ UNCHANGED <<now, budget, try>>

\* Mutant: the floor of an attempt is the whole timeout.
StartAttemptInFull ==
    /\ pc = "attempt" /\ deadline - now > 0
    /\ limit' = Timeout
    /\ address' = 1 /\ used' = 0 /\ last' = "none"
    /\ pc' = "connect"
    /\ UNCHANGED <<now, budget, outcome>>

\* The first attempt gets the whole timeout, a later one what remains, and at
\* least a second.
StartAttempt ==
    /\ pc = "attempt" /\ deadline - now > 0
    /\ limit' = IF attempt = 0 THEN Timeout ELSE Larger(Second, deadline - now)
    /\ address' = 1 /\ used' = 0 /\ last' = "none"
    /\ pc' = "connect"
    /\ UNCHANGED <<now, budget, outcome>>

\* An operation of _pinned_request that is not the last on this address: a
\* handshake before the request, a send or a read after it.  One is left for
\* the answer, and one more for the request while there is no connection.
Continue ==
    /\ pc \in {"connect", "answer"}
    /\ Blocks
    /\ used' = used + 1
    /\ pc' \in {pc, "answer"}
    /\ used' < IF pc' = "connect" THEN PerAddress - 1 ELSE PerAddress
    /\ UNCHANGED <<budget, limit, address, last, outcome>>

\* The connection is not made, or no whole answer comes.  The two are alike:
\* nothing that the code keeps says whether the request had been sent.
NoAnswer ==
    /\ pc \in {"connect", "answer"}
    /\ TimesOut \/ Breaks
    /\ pc' = "next"
    /\ UNCHANGED <<budget, limit, address, used, outcome>>

\* A JSON object under any status below 400, or a body under any status that
\* declares arrival: the peer's word, and all that "delivered" rests on.
Accepted ==
    /\ pc = "answer"
    /\ Blocks
    /\ Return("delivered")
    /\ UNCHANGED <<budget, try>>

\* Any other status from 400 on raises an HTTPError, which is an OSError: the
\* address loop goes on with it.
Refused ==
    /\ pc = "answer"
    /\ Blocks
    /\ last' \in {"refused", "unknown", "error"}
    /\ pc' = "next"
    /\ UNCHANGED <<budget, limit, address, used, outcome>>

\* The body of another status is no JSON object: json.loads or result.get
\* raises, outside the address loop.
Garbled ==
    /\ pc = "answer"
    /\ Blocks
    /\ last' = "error"
    /\ pc' = "failed" /\ failures' = [failures EXCEPT ![attempt] = "error"]
    /\ UNCHANGED <<deadline, extended, attempt, limit, address, used, outcome>>

\* The address loop keeps the last exception only: an answer, or the want of
\* one, at an earlier address leaves no trace.
NextAddress ==
    /\ pc = "next"
    /\ \/ /\ address < Addresses
          /\ address' = address + 1 /\ used' = 0
          /\ pc' = "connect"
          /\ UNCHANGED failures
       \/ /\ address = Addresses
          /\ failures' = [failures EXCEPT ![attempt] = last]
          /\ pc' = "failed"
          /\ UNCHANGED <<address, used>>
    /\ UNCHANGED <<now, deadline, extended, attempt, limit, last, outcome>>
-----------------------------------------------------------------------------
\* _delivery_failure_reason
Reason(exc) ==
    CASE exc \in {"timeout", "unknown"} -> "unconfirmed"
      [] exc = "refused" -> "refused"
      [] exc = "error" -> "unreachable"

\* Mutant: no failure extends the budget.
ExtendsNever == attempt = 0 /\ extended /\ last = "timeout"

\* A first attempt that had no answer at its last address extends the budget,
\* once; what the addresses before it answered is forgotten by then.
Extends == attempt = 0 /\ ~extended /\ last = "timeout"

\* Mutant: the extension is counted from the old deadline.
UntilLater == IF Extends THEN deadline + Timeout ELSE deadline

Until == IF Extends THEN now + Timeout ELSE deadline

\* Never past the deadline, with a second left for the next attempt.
Sleep(remaining) ==
    Smaller(Backoff * 2 ^ attempt, Larger(0, remaining - Second))

\* Mutant: the attempt is not counted.
RetrySameAttempt ==
    /\ pc = "failed"
    /\ Until - now > 0
    /\ deadline' = Until /\ extended' = (extended \/ Extends)
    /\ \E lag \in 0 .. MaxLag : now' = now + Sleep(Until - now) + lag
    /\ pc' = "attempt"
    /\ UNCHANGED <<failures, attempt, try, outcome>>

\* Mutant: one attempt too many.
RetryOnceMore ==
    /\ pc = "failed"
    /\ attempt <= Retries - 1 /\ Until - now > 0
    /\ deadline' = Until /\ extended' = (extended \/ Extends)
    /\ attempt' = attempt + 1
    /\ \E lag \in 0 .. MaxLag : now' = now + Sleep(Until - now) + lag
    /\ pc' = "attempt"
    /\ UNCHANGED <<failures, try, outcome>>

Retry ==
    /\ pc = "failed"
    /\ attempt < Retries - 1 /\ Until - now > 0
    /\ deadline' = Until /\ extended' = (extended \/ Extends)
    /\ attempt' = attempt + 1
    /\ \E lag \in 0 .. MaxLag : now' = now + Sleep(Until - now) + lag
    /\ pc' = "attempt"
    /\ UNCHANGED <<failures, try, outcome>>

GiveUp ==
    /\ pc = "failed"
    /\ ~(attempt < Retries - 1 /\ Until - now > 0)
    /\ deadline' = Until /\ extended' = (extended \/ Extends)
    /\ Return(Reason(last))
    /\ UNCHANGED <<now, attempt, failures, try>>

Next ==
    \/ OutOfTime \/ StartAttempt \/ Continue \/ NoAnswer
    \/ Accepted \/ Refused \/ Garbled
    \/ NextAddress \/ Retry \/ GiveUp

Spec == Init /\ [][Next]_vars

\* Socket operations end by their timeout and sleeps end.
FairSpec == Spec /\ WF_vars(Next)
-----------------------------------------------------------------------------
\* The socket operations of one attempt.
Operations == PerAddress * Addresses

\* A call ends within this time, if no address takes more than PerAddress
\* operations.  An attempt may spend the timeout on every one of them; the
\* extension grants one more timeout, and the attempt in which the budget runs
\* out may start at once or in its last moment.
Bound ==
    Larger(2 * Operations * Timeout,
           (Operations + 1) * Timeout + Operations * Second)
Ceiling == now <= Bound

\* A first attempt that ended without an answer is followed by a second: the
\* message is delivered, or the second has ended too (the first-attempt-full
\* budget of _deliver_webhook).
SilenceIsRetried ==
    pc = "done" /\ Retries > 1 /\ failures[0] = "timeout"
    => outcome = "delivered" \/ failures[1] # "none"

\* The second attempt is not starved by what the first has used up, however
\* many addresses and operations that was ("so the remaining attempts are not
\* starved"): it gets the whole timeout but for the pause before it.
RetryIsNotStarved ==
    /\ attempt = 1 /\ failures[0] = "timeout"
    /\ pc \in {"connect", "answer", "next", "failed"}
    => limit >= Larger(Second, Timeout - Backoff - MaxLag)

\* How far an attempt has come: a stage for each operation on an address, and
\* one for having left it.
Stage ==
    CASE pc = "attempt" -> 0
      [] pc \in {"connect", "answer"} ->
            (PerAddress + 1) * (address - 1) + used + 1
      [] pc = "next" -> (PerAddress + 1) * address
      [] pc = "failed" -> (PerAddress + 1) * Addresses + 1
      [] pc = "done" -> (PerAddress + 1) * Addresses + 2

\* The call never goes back: whatever it does takes it to a later stage of the
\* attempt or to a later attempt, of which there are Retries (the for loop of
\* _deliver_webhook over the address loop of _pinned_request).
NeverGoesBack ==
    [][\/ attempt' > attempt
       \/ attempt' = attempt /\ Stage' > Stage]_vars

\* Every call returns, if the answers of its peer end.
Returns == <>(pc = "done")
=============================================================================
