-------------------------------- MODULE Sts --------------------------------
(***************************************************************************)
(* The STS service: AssumeRole checks a request and issues credentials     *)
(* that nothing stores; what makes them different from every other issue   *)
(* is a digest of a tag, the time in nanoseconds, a counter of the process *)
(* and its number.  Requests are answered by concurrent tasks, each        *)
(* drawing several such digests one after the other.  A digest is the tuple of *)
(* what it digests.                                                        *)
(***************************************************************************)
EXTENDS Naturals, Sequences, FiniteSets

CONSTANTS Tasks,            \* tasks answering requests
          Requests,         \* parameters as query and form carry them, records
          Pids,             \* process numbers; a restart may draw the same again
          MinDuration,      \* MIN_DURATION_SECONDS
          MaxDuration,      \* MAX_DURATION_SECONDS
          DefaultDuration,  \* DEFAULT_DURATION_SECONDS
          Tags,             \* bound: which of the digests of an answer are modelled, in their order
          MaxTime,          \* bound: the clock
          MaxIssues         \* bound: requests answered

VARIABLES clock, counter, pid,
          task,             \* what each task holds
          issued            \* the answers given

vars == <<clock, counter, pid, task, issued>>
Idle == [at |-> "idle"]

\* Form parameters of a POST's body replace those of the query.
Keys == {"role", "session", "duration", "policy"}
Params(req) == [k \in Keys |-> IF req.method = "POST" /\ req.form[k] # "absent" THEN req.form[k] ELSE req.query[k]]

\* A session name, a role and a policy are judged as a whole; a duration is
\* its number of seconds written out, in range or not.
Duration(p) == CASE p.duration = "absent" -> DefaultDuration
                 [] p.duration = "shortest" -> MinDuration
                 [] p.duration = "longest" -> MaxDuration
                 [] p.duration = "under" -> MinDuration - 1
                 [] OTHER -> MaxDuration + 1
Valid(p) ==
    /\ p.role = "role" /\ p.session = "name"
    /\ Duration(p) \in MinDuration..MaxDuration
    /\ p.policy \in {"absent", "json"}

\* assume_role after its checks: the expiry is computed from one reading of
\* the clock, then each value draws a digest of its own (unique_hex).
Begin(t, req) ==
    /\ task[t].at = "idle" /\ Cardinality(issued) < MaxIssues
    /\ Valid(Params(req))
    /\ task' = [task EXCEPT ![t] = [at |-> "drawing", until |-> clock + Duration(Params(req)), wanted |-> req.wanted,
                                    began |-> clock, drawn |-> <<>>, read |-> 0]]
    /\ UNCHANGED <<clock, counter, pid, issued>>
Refuse(t, req) == task[t].at = "idle" /\ ~Valid(Params(req)) /\ UNCHANGED vars

\* unique_hex reads the clock, then takes the counter.
ReadClock(t) ==
    /\ task[t].at = "drawing" /\ Len(task[t].drawn) < Len(Tags)
    /\ task' = [task EXCEPT ![t].at = "counting", ![t].read = clock]
    /\ UNCHANGED <<clock, counter, pid, issued>>
Digest(tag, now, n) == <<tag, now, n, pid>>
TakeCounter(t) ==
    /\ task[t].at = "counting"
    /\ LET tag == Tags[Len(task[t].drawn) + 1]
       IN  task' = [task EXCEPT ![t].at = "drawing", ![t].drawn = Append(@, Digest(tag, task[t].read, counter))]
    /\ counter' = counter + 1
    /\ UNCHANGED <<clock, pid, issued>>
Answer(t) ==
    /\ task[t].at = "drawing" /\ Len(task[t].drawn) = Len(Tags)
    /\ issued' = issued \cup {[until |-> task[t].until, wanted |-> task[t].wanted, began |-> task[t].began,
                               values |-> task[t].drawn, nth |-> Cardinality(issued)]}
    /\ task' = [task EXCEPT ![t] = Idle]
    /\ UNCHANGED <<clock, counter, pid>>

Tick == clock < MaxTime /\ clock' = clock + 1 /\ UNCHANGED <<counter, pid, task, issued>>
\* A restart takes time; the counter begins again and the number may be the same.
Restart == /\ clock < MaxTime /\ clock' = clock + 1
           /\ counter' = 0 /\ pid' \in Pids
           /\ task' = [t \in Tasks |-> Idle] /\ UNCHANGED issued

Init == clock = 1 /\ counter = 0 /\ pid \in Pids /\ task = [t \in Tasks |-> Idle] /\ issued = {}
Next == \/ \E t \in Tasks : \/ \E req \in Requests : Begin(t, req) \/ Refuse(t, req)
                            \/ ReadClock(t) \/ TakeCounter(t) \/ Answer(t)
        \/ Tick \/ Restart
Spec == Init /\ [][Next]_vars

TypeOK == clock \in 1..MaxTime /\ counter \in Nat /\ \A t \in Tasks : task[t].at \in {"idle", "drawing", "counting"}

\* No two answers, of tasks at the same time or of two lives of the process,
\* share an access key, a secret, a token or a role id.
IssuedOnce ==
    \A a, b \in issued : a.nth # b.nth => \A i \in DOMAIN a.values : \A j \in DOMAIN b.values : a.values[i] # b.values[j]

\* Credentials last as long as the request asked for, which its form says when
\* it and the query both do, counted from when it was taken up.
ExpiryAsAsked == \A a \in issued : a.until - a.began = a.wanted
=============================================================================
