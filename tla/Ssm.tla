-------------------------------- MODULE Ssm --------------------------------
(***************************************************************************)
(* The SSM parameter store: PutParameter, GetParameter, DeleteParameter    *)
(* and DescribeParameters over a map kept in memory under one mutex and    *)
(* saved whole, by writing a temporary file and renaming it.  A name is a  *)
(* number (the map is ordered), a value a pair of its text and its length. *)
(***************************************************************************)
EXTENDS Naturals, Sequences, FiniteSets, FiniteSetsExt

CONSTANTS Names,          \* well-formed parameter names, numbers
          BadNames,       \* names validate_name refuses
          Puts,           \* the PutParameter requests clients make
          MaxStandard,    \* MAX_STANDARD_VALUE_BYTES
          MaxAdvanced,    \* MAX_ADVANCED_VALUE_BYTES
          MaxPage,        \* MAX_DESCRIBE_PAGE, also the default
          MaxVersion,     \* bound: versions of a name
          MaxFaults       \* bound: failed saves and restarts

ASSUME SsmAssumption ==
    /\ Names \subseteq Nat \ {0}
    /\ \A req \in Puts : req.value.size \in Nat /\ req.overwrite \in BOOLEAN
    /\ MaxStandard \in Nat /\ MaxAdvanced \in Nat /\ MaxPage \in Nat
    /\ MaxVersion \in Nat /\ MaxFaults \in Nat

VARIABLES params,         \* state: the parameters in memory
          disk,           \* state.json
          up,             \* whether the process runs
          told,           \* the parameters as the answers so far let a client know
          secretly,       \* whether the client last gave a name the type SecureString
          seen,           \* what reads of each name showed since it was created
          pager,          \* a client listing the names page by page
          faults

vars == <<params, disk, up, told, secretly, seen, pager, faults>>

Kinds == {"String", "StringList", "SecureString"}
None == [kind |-> "none"]
Value(text, size) == [text |-> text, size |-> size]
Put(f, n, v) == [m \in DOMAIN f \cup {n} |-> IF m = n THEN v ELSE f[m]]
Without(f, n) == [m \in DOMAIN f \ {n} |-> f[m]]
Idle == [state |-> "idle"]

-----------------------------------------------------------------------------
ValidName(name) == name \in Names
Limit(tier) == IF tier = "Advanced" THEN MaxAdvanced ELSE MaxStandard
TierOf(tier) == IF tier \in {"", "Standard", "Intelligent-Tiering"} THEN "Standard" ELSE tier

\* The checks PutParameter makes before it takes the lock.
ValidPut(req) ==
    /\ ValidName(req.name)
    /\ req.value.size > 0
    /\ req.kind \in Kinds \cup {""}
    /\ TierOf(req.tier) \in {"Standard", "Advanced"}
    /\ req.value.size <= Limit(TierOf(req.tier))
    /\ req.dataType \in {"", "text", "aws:ec2:image", "aws:ssm:integration"}

Previous(name) == IF name \in DOMAIN params THEN params[name] ELSE None

\* An overwrite that leaves out the type or the description keeps them.
KindAfter(req) == IF req.kind # "" THEN req.kind ELSE Previous(req.name).kind
Allowed(req) == IF Previous(req.name) = None THEN req.kind # "" ELSE req.overwrite
VersionKept(name) == IF Previous(name) = None THEN 1 ELSE Previous(name).version
VersionAfter(name) == IF Previous(name) = None THEN 1 ELSE Previous(name).version + 1

Parameter(req) ==
    [kind |-> KindAfter(req), value |-> req.value, version |-> VersionAfter(req.name),
     description |-> IF req.description = "" /\ Previous(req.name) # None THEN Previous(req.name).description ELSE req.description,
     keyId |-> IF KindAfter(req) = "SecureString" THEN (IF req.keyId = "" THEN "alias/aws/ssm" ELSE req.keyId) ELSE "",
     tier |-> TierOf(req.tier), dataType |-> IF req.dataType = "" THEN "text" ELSE req.dataType]

\* persist: the save takes effect whole or, on a fault, not at all.
Persist(after) == disk' = after /\ UNCHANGED faults
PersistFails == faults < MaxFaults /\ faults' = faults + 1 /\ UNCHANGED disk

\* What stays in memory when the save failed.
RemoveOnly(name, previous, after) == Without(after, name)
PutBack(name, previous, after) == IF previous = None THEN Without(after, name) ELSE Put(after, name, previous)

Meant(req) == IF req.kind = "" THEN secretly ELSE [secretly EXCEPT ![req.name] = req.kind = "SecureString"]
PutParameter(req) ==
    /\ up /\ ValidPut(req) /\ Allowed(req)
    /\ VersionAfter(req.name) <= MaxVersion
    /\ LET after == Put(params, req.name, Parameter(req))
       IN  \/ /\ Persist(after) /\ params' = after /\ told' = after
              /\ secretly' = Meant(req)
           \/ /\ PersistFails /\ params' = PutBack(req.name, Previous(req.name), after)
              /\ UNCHANGED <<told, secretly>>
    /\ UNCHANGED <<up, seen, pager>>

\* A selector asks for a version; only the current one can be had.  Without
\* decryption a SecureString is answered as a digest of its value.
Shown(p, decryption) == IF p.kind = "SecureString" /\ ~decryption THEN [text |-> "digest", of |-> p.value.text]
                        ELSE [text |-> "clear", of |-> p.value.text]
GetParameter(name, selector, decryption) ==
    /\ up /\ ValidName(name) /\ name \in DOMAIN params
    /\ selector \in {0, params[name].version}
    /\ seen' = [seen EXCEPT ![name] = @ \cup {[version |-> params[name].version, shown |-> Shown(params[name], decryption),
                                               hidden |-> secretly[name] /\ ~decryption]}]
    /\ UNCHANGED <<params, disk, up, told, secretly, pager, faults>>

DeleteParameter(name) ==
    /\ up /\ ValidName(name) /\ name \in DOMAIN params
    /\ LET after == Without(params, name)
       IN  \/ Persist(after) /\ params' = after /\ told' = after /\ seen' = [seen EXCEPT ![name] = {}]
           \/ PersistFails /\ params' = PutBack(name, params[name], after) /\ UNCHANGED <<told, seen>>
    /\ pager' = IF params' # params /\ pager.state = "listing" THEN [pager EXCEPT !.stable = @ \ {name}] ELSE pager
    /\ UNCHANGED <<up, secretly>>

\* A page holds the names after the token; one more was taken to know whether
\* there are more, and the token is the last name listed.
Following(token) == {n \in DOMAIN params : n > token}
FirstOf(S, n) == {x \in S : Cardinality({y \in S : y <= x}) <= n}
DescribeParameters(size) ==
    /\ up /\ size \in 1..MaxPage
    /\ pager.state \in {"idle", "listing"}
    /\ LET token == IF pager.state = "idle" THEN 0 ELSE pager.token
           stable == IF pager.state = "idle" THEN DOMAIN params ELSE pager.stable
           pages == IF pager.state = "idle" THEN <<>> ELSE pager.pages
           listed == FirstOf(Following(token), size)
           more == Cardinality(Following(token)) > size
       IN  pager' = [state |-> IF more THEN "listing" ELSE "done", stable |-> stable,
                     pages |-> Append(pages, listed), token |-> IF more THEN Max(listed) ELSE 0]
    /\ UNCHANGED <<params, disk, up, told, secretly, seen, faults>>

\* A refused request changes nothing: a bad name or value, a name that exists
\* and may not be overwritten, an unknown operation, a filter, a path other
\* than "/" or a method other than POST.
Refuse(req) ==
    /\ up
    /\ ~ValidPut(req) \/ ~Allowed(req)
    /\ UNCHANGED vars

\* The process ends, also between the rename and the answer to a put or a
\* deletion; a new one loads state.json.
Crash ==
    /\ up /\ faults < MaxFaults /\ faults' = faults + 1
    /\ up' = FALSE /\ params' = <<>>
    /\ UNCHANGED <<disk, told, secretly, seen, pager>>
CrashAfterSave(req) ==
    /\ up /\ faults < MaxFaults /\ faults' = faults + 1
    /\ ValidPut(req) /\ Allowed(req) /\ VersionAfter(req.name) <= MaxVersion
    /\ disk' = Put(params, req.name, Parameter(req))
    /\ told' = disk'
    /\ secretly' = Meant(req)
    /\ up' = FALSE /\ params' = <<>>
    /\ UNCHANGED <<seen, pager>>
CrashAfterDelete(name) ==
    /\ up /\ faults < MaxFaults /\ faults' = faults + 1
    /\ ValidName(name) /\ name \in DOMAIN params
    /\ disk' = Without(params, name) /\ told' = disk'
    /\ seen' = [seen EXCEPT ![name] = {}]
    /\ pager' = IF pager.state = "listing" THEN [pager EXCEPT !.stable = @ \ {name}] ELSE pager
    /\ up' = FALSE /\ params' = <<>>
    /\ UNCHANGED secretly
Start == /\ ~up /\ up' = TRUE /\ params' = disk
         /\ UNCHANGED <<disk, told, secretly, seen, pager, faults>>

Init == /\ params = <<>> /\ disk = <<>> /\ up = TRUE /\ told = <<>>
        /\ secretly = [n \in Names |-> FALSE] /\ seen = [n \in Names |-> {}] /\ pager = Idle /\ faults = 0

Next == \/ \E req \in Puts : PutParameter(req) \/ Refuse(req) \/ CrashAfterSave(req)
        \/ \E n \in Names : DeleteParameter(n) \/ CrashAfterDelete(n)
        \/ \E n \in Names, v \in 0..MaxVersion, d \in BOOLEAN : GetParameter(n, v, d)
        \/ \E s \in 1..MaxPage : DescribeParameters(s)
        \/ Crash \/ Start

Spec == Init /\ [][Next]_vars

-----------------------------------------------------------------------------
\* The store a client can reason with: no process, no file, no failed save.
Contents == IF up THEN params ELSE disk
Store == INSTANCE ParameterStore WITH contents <- Contents

\* Every behaviour of the service, its failed saves, crashes and restarts
\* included, is one of that store.
ImplementsStore == Store!Spec

TypeOK ==
    /\ DOMAIN params \subseteq Names /\ DOMAIN disk \subseteq Names
    /\ \A n \in DOMAIN params :
          /\ params[n].kind \in Kinds /\ params[n].version \in 1..MaxVersion
          /\ params[n].value.size \in 1..Limit(params[n].tier)
          /\ params[n].keyId # "" <=> params[n].kind = "SecureString"

\* What clients were told is what is in memory and on disk: a put or delete
\* answered with an error left both as they were, and a restart loses nothing.
AnsweredIsKept == (up => params = told) /\ disk = told

\* While a name lives, a version of it is one value, across failed saves,
\* restarts and overwrites.
VersionIsOneValue ==
    \A n \in Names : \A a, b \in seen[n] : a.version = b.version => a.shown.of = b.shown.of

\* A parameter a client made secret is answered in clear only on request, also
\* after an overwrite that says nothing of its type.
SecretsHidden == \A n \in Names : \A r \in seen[n] : r.hidden => r.shown.text = "digest"

\* Paging lists every name that was there all along, whatever is put or
\* deleted meanwhile; each page goes on after the one before, so no name is
\* listed twice (describe_parameters).
PagingComplete ==
    pager.state # "idle" =>
       /\ \A i, j \in DOMAIN pager.pages : i < j =>
             \A m \in pager.pages[i], n \in pager.pages[j] : m < n
       /\ pager.state = "done" => pager.stable \subseteq UNION {pager.pages[i] : i \in DOMAIN pager.pages}

\* What put and delete answered is what memory and state.json hold, a version
\* is one value, secrets are shown in clear only on request, and paging lists
\* every name that was there all along (server.rs).
ParametersKept ==
    TypeOK /\ AnsweredIsKept /\ VersionIsOneValue /\ SecretsHidden /\ PagingComplete
=============================================================================
