---------------------------- MODULE AccessFiles ----------------------------
(***************************************************************************)
(* Who may reach what beside the diagrams: workspace grants (access.json)  *)
(* and connection codes with the agent names they claim (codes.json), of   *)
(* server/store.js, written by server/files.mjs to a bucket and administered *)
(* through server/rest.js, with the diagrams that people and their agents  *)
(* create under a quota.                                                   *)
(*                                                                         *)
(* Each change copies what is in memory, awaits the write of the whole     *)
(* file and only then replaces what is in memory.                          *)
(***************************************************************************)
EXTENDS Naturals, Sequences, FiniteSets, SequencesExt

CONSTANTS
    Person,         \* principals that sign in
    Agent,          \* principals that authenticate with a code
    Diagram,        \* ids that may be minted
    Code,           \* ids of codes that may be minted
    None,           \* nobody
    Quota,          \* MAX_PER_PRINCIPAL
    MaxCalls,       \* bounds on the model: changes asked for,
    MaxFaults       \* writes that fail and restarts

ASSUME AccessAssumption ==
    /\ {Quota, MaxCalls, MaxFaults} \subseteq Nat
    /\ None \notin Person \cup Agent /\ Person \cap Agent = {}

Principal == Person \cup Agent
File  == {"access", "codes"}
Level == {"none", "read", "write"}
Grants == [Person -> [Principal -> Level]]
Codes  == [claims : [Agent -> Person \cup {None}], codes : [Code -> Agent \cup {None}]]
\* What a change is about: a grant of an owner's, or nothing that is remembered.
Fact == [owner : Person, who : Principal, level : Level] \cup {None}

VARIABLES
    memory,         \* Store.workspace, and Store.agents with Store.codes
    file,           \* what access.json and codes.json hold
    gen, known,     \* the generation of each object, and the one last seen
    queue,          \* files.mjs inFlight: the writes of each file, one at a time
    expired,        \* codes past their expiry
    issued,         \* codes minted so far
    owner,          \* meta.owner of each diagram
    request,        \* the principal of a request whose body is being read
    calls, faults,  \* counted for the bounds
    \* History, for the properties only:
    told,           \* the level an owner last heard confirmed for each principal
    overlapped,     \* files of which two changes were under way at once
    unheard         \* files of which a write landed and its caller heard it failed

side == <<memory, file, gen, known, queue, told, overlapped, unheard>>
vars == <<side, expired, issued, owner, request, calls, faults>>

TypeOK ==
    /\ memory \in [access : Grants, codes : Codes]
    /\ file \in [access : Grants, codes : Codes]
    /\ gen \in [File -> Nat] /\ known \in [File -> Nat]
    /\ \A f \in File : \A i \in DOMAIN queue[f] :
        /\ queue[f][i].next \in IF f = "access" THEN Grants ELSE Codes
        /\ queue[f][i].stage \in {"asked", "landed"} /\ queue[f][i].fact \in Fact
        /\ queue[f][i].stage = "landed" => i = 1 /\ file[f] = queue[f][1].next
    /\ expired \subseteq Code /\ issued \subseteq Code
    /\ owner \in [Diagram -> Principal \cup {None}]
    /\ request \in Principal \cup {None}

NoGrants == [o \in Person |-> [p \in Principal |-> "none"]]
NoCodes  == [claims |-> [a \in Agent |-> None], codes |-> [c \in Code |-> None]]

\* A first boot finds neither file.
Init ==
    /\ memory = [access |-> NoGrants, codes |-> NoCodes] /\ file = memory
    /\ gen = [f \in File |-> 0] /\ known = [f \in File |-> 0]
    /\ queue = [f \in File |-> <<>>]
    /\ expired = {} /\ issued = {}
    /\ owner = [d \in Diagram |-> None] /\ request = None
    /\ calls = 0 /\ faults = 0
    /\ told = NoGrants /\ overlapped = {} /\ unheard = {}

Fault == faults < MaxFaults /\ faults' = faults + 1

-----------------------------------------------------------------------------
(* Changes: the whole file as it will be, from what is in memory now.       *)

Change(f, next, fact) ==
    /\ calls < MaxCalls /\ calls' = calls + 1
    /\ queue' = [queue EXCEPT ![f] = Append(@, [next |-> next, stage |-> "asked", fact |-> fact])]
    /\ overlapped' = IF queue[f] = <<>> THEN overlapped ELSE overlapped \cup {f}
    /\ UNCHANGED <<memory, file, gen, known, told, unheard, expired, owner, request, faults>>

\* grantOwner, and revokeOwner with "none": the caller is the owner.
GrantOwner(o, p, l) ==
    /\ p # o
    /\ Change("access", [memory.access EXCEPT ![o][p] = l], [owner |-> o, who |-> p, level |-> l])
    /\ UNCHANGED issued

ClaimantOf(a) == IF a \in Agent THEN memory.codes.claims[a] ELSE None

\* A slip: whoever mints takes the name.
MayMintAnyone(a, by) == TRUE

\* B99: the first mint takes the agent's name for its minter.
MayMint(a, by) == ClaimantOf(a) \in {None, by}

MintCode(a, by, c) ==
    /\ MayMint(a, by) /\ c \notin issued
    /\ issued' = issued \cup {c}
    /\ Change("codes", [claims |-> [memory.codes.claims EXCEPT ![a] = by],
                        codes |-> [memory.codes.codes EXCEPT ![c] = a]], None)

\* Revoking is per code; the name stays held.
Without(c) == [memory.codes EXCEPT !.codes[c] = None]

RevokeCode(c, by) ==
    /\ memory.codes.codes[c] # None /\ ClaimantOf(memory.codes.codes[c]) = by
    /\ Change("codes", Without(c), None)
    /\ UNCHANGED issued

-----------------------------------------------------------------------------
(* The writes of one file                                                   *)

Rest == UNCHANGED <<expired, issued, owner, request, calls, overlapped>>
Served(f) == queue' = [queue EXCEPT ![f] = Tail(@)]

\* The bucket takes the file if the generation is the one last seen.
Lands(f) ==
    /\ queue[f] # <<>> /\ Head(queue[f]).stage = "asked" /\ known[f] = gen[f]
    /\ file' = [file EXCEPT ![f] = Head(queue[f]).next]
    /\ gen' = [gen EXCEPT ![f] = @ + 1]
    /\ queue' = [queue EXCEPT ![f][1].stage = "landed"]
    /\ UNCHANGED <<memory, known, told, unheard, faults>> /\ Rest

\* A slip: memory is replaced before the write, and stays replaced when it fails.
FailedKeeps(f) == [memory EXCEPT ![f] = Head(queue[f]).next]

\* "if the write fails, nothing changed and the caller is told the truth"
Failed(f) == memory

\* 412: somebody else wrote since, or one of our own that was not heard to land.
Refused(f) ==
    /\ queue[f] # <<>> /\ Head(queue[f]).stage = "asked" /\ known[f] # gen[f]
    /\ Served(f) /\ memory' = Failed(f)
    /\ UNCHANGED <<file, gen, known, told, unheard, faults>> /\ Rest

Fails(f) ==
    /\ queue[f] # <<>> /\ Head(queue[f]).stage = "asked" /\ Fault
    /\ Served(f) /\ memory' = Failed(f)
    /\ UNCHANGED <<file, gen, known, told, unheard>> /\ Rest

\* The answer: memory is replaced, the caller told.
Answered(f) ==
    /\ queue[f] # <<>> /\ Head(queue[f]).stage = "landed"
    /\ LET call == Head(queue[f])
       IN  /\ memory' = [memory EXCEPT ![f] = call.next]
           /\ told' = IF call.fact = None THEN told
                      ELSE [told EXCEPT ![call.fact.owner][call.fact.who] = call.fact.level]
    /\ known' = [known EXCEPT ![f] = gen[f]]
    /\ Served(f)
    /\ UNCHANGED <<file, gen, unheard, faults>> /\ Rest

\* The answer is a 5xx: the retry is refused by the write itself, and the
\* generation last seen is wrong until the next boot.
Unheard(f) ==
    /\ queue[f] # <<>> /\ Head(queue[f]).stage = "landed" /\ Fault
    /\ Served(f) /\ unheard' = unheard \cup {f}
    /\ UNCHANGED <<memory, file, gen, known, told>> /\ Rest

-----------------------------------------------------------------------------
(* Requests.  The principal is found first, the body read after.            *)

\* agentForCode
AgentFor(c) == IF c \in expired \/ ClaimantOf(memory.codes.codes[c]) = None THEN None
               ELSE memory.codes.codes[c]

\* anyOf: a person through the identity of the deployment, or a code.
Arrives(p) ==
    /\ request = None
    /\ p \in Person \cup {AgentFor(c) : c \in Code} /\ p # None
    /\ request' = p
    /\ UNCHANGED <<side, expired, issued, owner, calls, faults>>

\* B100: an agent's work belongs to whoever authorised it.
OwnerFor(p) == IF ClaimantOf(p) = None THEN p ELSE ClaimantOf(p)

\* A slip: what is counted is what the caller owns, not whoever authorised it.
CountOwnedByCaller(p) == Cardinality({d \in Diagram : owner[d] = p})

CountOwnedBy(p) == Cardinality({d \in Diagram : owner[d] = OwnerFor(p)})

Create(d) ==
    /\ request # None /\ owner[d] = None
    /\ CountOwnedBy(request) < Quota
    /\ owner' = [owner EXCEPT ![d] = OwnerFor(request)]
    /\ request' = None
    /\ UNCHANGED <<side, expired, issued, calls, faults>>

\* remove: the diagram's owner deletes it.
RemoveDiagram(d) ==
    /\ request # None /\ owner[d] = request
    /\ owner' = [owner EXCEPT ![d] = None]
    /\ request' = None
    /\ UNCHANGED <<side, expired, issued, calls, faults>>

TooMany ==
    /\ request # None /\ CountOwnedBy(request) >= Quota
    /\ request' = None
    /\ UNCHANGED <<side, expired, issued, owner, calls, faults>>

Lapse(c) ==
    /\ c \in issued \ expired
    /\ expired' = expired \cup {c}
    /\ UNCHANGED <<side, issued, owner, request, calls, faults>>

-----------------------------------------------------------------------------
\* loadCodes refuses a file with a code for a name nobody claims.
Loads(codes) == \A c \in Code : codes.codes[c] # None => codes.claims[codes.codes[c]] # None

\* The process dies with its writes under way and boots from the files; who was
\* waiting hears nothing, and finds what it finds.
Restart ==
    /\ Fault /\ Loads(file.codes)
    /\ memory' = file /\ known' = gen
    /\ queue' = [f \in File |-> <<>>] /\ request' = None
    /\ told' = [o \in Person |-> [p \in Principal |->
            IF \E call \in ToSet(queue["access"]) : call.fact.owner = o /\ call.fact.who = p
            THEN file.access[o][p] ELSE told[o][p]]]
    /\ UNCHANGED <<file, gen, expired, issued, owner, calls, overlapped, unheard>>

Next ==
    \/ \E o \in Person, p \in Principal, l \in Level : GrantOwner(o, p, l)
    \/ \E a \in Agent, by \in Person, c \in Code : MintCode(a, by, c)
    \/ \E c \in Code, by \in Person : RevokeCode(c, by)
    \/ \E f \in File : Lands(f) \/ Refused(f) \/ Fails(f) \/ Answered(f) \/ Unheard(f)
    \/ \E p \in Principal : Arrives(p)
    \/ \E d \in Diagram : Create(d) \/ RemoveDiagram(d)
    \/ TooMany
    \/ \E c \in Code : Lapse(c)
    \/ Restart

Spec == Init /\ [][Next]_vars

-----------------------------------------------------------------------------
(* Properties *)

\* Once no change is under way, the server goes by what the file says, so that a
\* restart changes nobody's access: through writes that overlap, fail and are
\* refused, unless one landed unheard.
MemoryIsFile == \A f \in File \ unheard : queue[f] = <<>> => memory[f] = file[f]

\* A name claimed stays claimed by the same person, when its codes are revoked,
\* lapse, or the server restarts (B99), as long as changes do not overlap and no
\* write lands unheard.
ClaimsStay ==
    [][\A a \in Agent : ClaimantOf(a) # None /\ "codes" \notin overlapped' \cup unheard'
            => ClaimantOf(a)' = ClaimantOf(a)]_vars

\* Nobody gets past the quota through an agent, and no diagram is left to an agent
\* its person cannot follow (B100), as long as changes of codes do not overlap.
OwnersWithinQuota ==
    "codes" \notin overlapped =>
        /\ \A d \in Diagram : owner[d] \in Person \cup {None}
        /\ \A p \in Person : Cardinality({d \in Diagram : owner[d] = p}) <= Quota

\* "A revoke that reports success while the file still says otherwise would come
\* back at the next restart, so the durable copy is the one that decides"
\* (store.js:486): a revoke that reported success is in force.
RevokesHold ==
    \A o \in Person, p \in Principal : told[o][p] = "none" => memory.access[o][p] = "none"
=============================================================================
