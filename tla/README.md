# Verification of synoi-gap

TLA+ models of the parts of synoi-gap that decide something: whether an agent's
tool call runs, whether a chain of perimeter declarations holds, whether a
receipt is the one its issuer signed, whether one capability covers another,
whether a client's requests go out on a session it has open, whether an object is
valid, and whether the language packages give one object the same identity. Each
model is checked by TLC on small instances, and the properties that hold of it are
proved with TLAPS for every value of the constants. Paths below are relative to
the repository root; the code is read there, and the GAP gateway, which the
repository describes but does not contain, is modelled from how the code uses it.

## Contents

1. [The system](#the-system)
2. [Modules and code](#modules-and-code)
3. [What is checked](#what-is-checked)
4. [Fairness](#fairness)
5. [What is proved](#what-is-proved)
6. [Disagreements between code and documentation](#disagreements-between-code-and-documentation)
7. [What is not modelled](#what-is-not-modelled)
8. [Plan](#plan)

## The system

synoi-gap is a protocol SDK. A *gateway* (not here) rules on what an AI agent may
do and leaves signed, content-addressed records. The repository holds the wire
types, validators, builders, canonical form, hashing and signing in TypeScript,
Python, Go and Rust, a Python client of the gateway's HTTP interface, and a hook
by which an agent framework asks the gateway before every tool call.

| Component | State it keeps | Operations | What makes it correct |
|---|---|---|---|
| Governance hook, `python/synoi_gap/integrations/openjarvis.py` and the loop around it, `python/examples/openjarvis_pr_patch.py` | per call: where its task awaits, its deadline; shared: the client's session | `__call__`, `_poll_hitl`, `_extract_status`; the caller runs or withholds the tool | a tool runs only if its call was granted; a call is blocked only for cause; an approval in time is honoured; every call comes back; a verdict is final |
| Gateway client, `python/synoi_gap/client.py` | `_client`, the open session, shared by all tasks | `__aenter__`, `__aexit__`, `_post`, `_get` and one method per endpoint | a block's requests go out on its own session, and every session is closed; what overlapping blocks may break of that and what not |
| Perimeter declarations, `src/perimeter.ts` | the accumulated reasons of one pass | `verifyPerimeterChain`, `classifySurface`, renderer | a chain that passes describes one subject, one perimeter at a time, and where a program and a reader make different things of it |
| Self-signed receipts, `src/receipt.ts`, `src/oid.ts` | the key pair a caller keeps | `generateReceiptKeyPair`, `receipt`, `verifyReceiptSignature` | what verifies is what was issued, and the converse |
| Canonical form and OID, `go/gapcore`, `rust/src`, `python/synoi_gap/oid.py` | none; objects travel between them | decode, canonicalize, content core, OID | one object, one OID, in all packages |
| TypeScript canonicalizer, `src/canonicalize.ts` | none | re-export of `@synoi/sraid` | not in the repository |
| Capabilities, `src/capabilities.ts` and the delegation part of `src/validate.ts` | the chain of grants | `capabilityMatches`, the guard of MCP tool names, grant and delegation bodies | authority only narrows along a chain; what the matcher matches, beside what its comments say; how a tool may come by a normative capability |
| Validators, `src/validate.ts`, `python/synoi_gap/validate.py` | none | one shape check per object type | what Python refuses of what TypeScript accepts, that builders build what both accept, and where validators and interfaces agree |
| Signatures, `go/gapcore/signature.go`, `rust/src/signature.rs` | none | Ed25519 and hybrid verification | a hybrid signature verifies only if both halves do |
| v1 projection, `rust/src/receipt.rs` | none | drops null fields | the projection is stable |
| Types and constants, other files of `src/` | none | `revokeGapObject` | interfaces say what validated objects are |
| Vector generator, `scripts/gen-conformance-vectors.ts` | none | writes test data | build script |

How they interact. The agent loop awaits the hook once per tool call. The hook
builds an envelope, computes its OID with `oid.py`, POSTs it through the shared
client and, when the gateway defers, GETs the receipt until it is final or a
deadline passes. What the gateway records is objects with OIDs; any package may
receive one, decode it, recompute its OID, verify its signature and pass it on.
Grants and perimeter declarations are such objects, and each refers to an
earlier one by OID.

What is hard in this code, and hardly reached by its tests:

- *interleaving*: tool calls are asyncio tasks on one session; between any two
  awaits another call moves, a person resolves the held call, the session closes
  or the task is cancelled;
- *timeouts*: the deadline is tested at the top of a loop that sleeps at its
  bottom, so what happens in the last interval decides;
- *lost and late answers*: the ruling at the gateway and the verdict of the hook
  are made apart, and either may come after the other;
- *partial failure*: some statements that can raise stand inside a `try`, some
  outside it, and the exception handlers differ in what they conclude;
- *overlapping scopes*: `async with` blocks of several tasks share one field, and
  the exit of one awaits between closing a session and clearing the field;
- *pairwise checks for chain-wide claims*: a declaration is compared with its
  neighbour, a grant with its parent, and the whole must follow;
- *four implementations of one definition*: numbers, key order and envelope
  fields are each written down once per language;
- *two projections of one envelope*: what is hashed and what is signed differ;
- *one shape, three descriptions*: the fields of an object are listed in its
  interface, in the TypeScript validator and in the Python one.

`PROJECT.json` lists these hazards one by one with their lines and with the
properties that would catch them.

## Modules and code

Every module is short because it keeps the control of the code and abstracts
its data. `PROJECT.json` maps each definition to the lines it stands for.

### ToolHook, GatedExecution

`ToolHook` is the hook as an agent uses it. One call is one asyncio task, and one
step of a call is what its task does between two awaits:

| State | Code |
|---|---|
| `pc[c]` | where the task stands: not started (`idle`), awaiting the POST (`invoking`), a GET (`reading`) or the sleep (`sleeping`), and after the verdict `running`, `finished`, `blocked`, `raised` |
| `left[c]`, `nap[c]` | `deadline - loop.time()` and what remains of `asyncio.sleep`, in ticks; `NoDeadline` before `_poll_hitl` is entered |
| `open` | `GapClient._client` is not `None` |
| `ruling[c]`, `asked`, `reply[c]` | the gateway's decision, POSTs on their way, answers on their way |
| `heard[c]`, `slack[c]` | history: the last answer the call took, and how far its deadline was when a person approved |

`Start`, `TakeAskReply`, `TakeReadReply`, `RequestFails` and `Wake` are the
segments of `__call__` and `_poll_hitl` between awaits, with every early return.
`Cancel` is a cancelled task, `ToolEnds` the tool that was let through.
`Decide`, `LoseAsk`, `AnswerRead` and `Resolve` are the network, the gateway and
a person. `CloseSession` is `__aexit__` while calls are under way. `Tick` is time.
What a gateway answers is a parameter (`AskReplies`, `ReadReplies`): the code was
tested against one vocabulary and `openapi.yaml` specifies another, and one model
covers both. `Prompt` names the calls that are answered at once and without
error; the claims about timeliness are about those, every other claim about all.
`SyncGapToolHook` runs the same coroutine to its end, one call at a time.

`GatedExecution` is the abstract specification: a gateway rules once on each
call; a tool runs only if its call was granted (or waived); what was decided
stays decided. `ToolHook` implements it under the mapping `AbstractRuling`,
`AbstractFate`.

### ClientSession

One `GapClient` and the tasks that share it. `Owners` run `async with` blocks,
`Callers` only send requests, as the hook does.

| State | Code |
|---|---|
| `client` | the field `_client` |
| `session[s]` | an httpx session: not yet made, open, closed |
| `pc[t]`, `held[t]` | where a task stands, and the session its await is about: the local variable of a request or the receiver of `aclose` |
| `mine`, `disturbed`, `last` | history: the session of each block, the sessions another block got at, and how each task's last request ended |

`Enter` is `__aenter__`, which overwrites what it finds. `__aexit__` is two steps,
because it awaits: `BeginExit` closes the session, `EndExit` clears the field,
whatever the field holds by then; `ExitFails` is the await raising. `Send`,
`Answered`, `CutOff` and `Abandoned` are a request, which every public method
of the client is one of. `ToolHook` sees of all this one bit, `open`, which
`CloseSession` clears: its calls start when a session is open, and the worst that
other tasks can do to them is to take it away.

### PerimeterChain, PerimeterReading

`verifyPerimeterChain` statement group by statement group: `Empty`, `Genesis`,
one `Pair` per turn of the loop, `Last`. `chain` is the argument, `i` the loop
index, `reasons` what was pushed (as a set; only emptiness is relied upon, and
the names are kept to tell the checks apart). OIDs, tenants and the four subject
fields are model values, one of which is "absent"; times are numbers, and an
absent end is `OpenEnded`.

`PerimeterReading` gives each declaration its two lists of surfaces and models
the two functions that read them: `classifySurface`, in the order of its loops, and
`renderPerimeterDeclaration`, of whose text the two lists and the sentence for an
empty one are kept. It is composed with the chain, because a reader of either
kind has to find the declaration in force first. The two functions treat a surface
that is in both lists differently, and nothing in the repository keeps the lists
apart; `ReadingsPartWhereListedTwice` says that they part there and nowhere else.

### SelfSignReceipt

`GenerateReceiptKeyPair` and `Receipt` are the functions of those names; a
receipt is built in the code's order (content, OID, key id, signature) with its
defaults. `verifyReceiptSignature`, `computeGapOid` and `signingPayload` are
operators on envelopes, an envelope being a function from field names to values.
`Fetch`, `Edit`, `Mix` and `Readdress` are what becomes of a stored copy: fields
change, are taken from another receipt, and the OID is recomputed. Hashing and
Ed25519 are ideal: an OID stands for the content, a signature for key and bytes.

### CapabilityMatch, CapabilitySegments, McpToolNames

`capabilityMatches` symbol by symbol, with the dot and the star the only symbols
that mean anything, and a chain of grants in which each is accepted if its
parent covers it (`Grant`, `Delegate`), at most `MaxHops` delegations long. The
limit is the validator's (`WithinHops`). That a grant is compared with its parent
is the gateway's part, external here: `src/capabilities.ts:477-482` says that it
MUST verify this, and nothing in the repository does.

`CapabilitySegments` holds three descriptions of the matcher against it: lists of
segments, which is how the code behaves (`Covers`), the comment above the function
(`HeaderRule`) and the comment inside it (`ChildrenRule`). A list is a function from the
places where segments begin to what they say, which makes "the same segments up to
here" a statement about two functions and needs no recursion.

`McpToolNames` adds the names of MCP tools, which become capabilities: the guard
`reservedMcpNameReason`, with its trimming and lower-casing, and the weaker check
that `validateMcpToolCallContext` makes of the same name at every invocation. A
chain may begin with a grant of such a name, wildcards among them. The naming
`mcp.<server_id>.<tool_name>`, which a comment mentions, is built by no code here and
not modelled: a name is granted as the guard saw it.

### CanonicalRelay

An object is authored, then minted (`Mint`), refused (`Refuse`), relayed
(`Relay`: decoded and written out again) and signed (`Attest`) by the Go, Rust
and Python packages in any order. A number keeps how it was written, its sign
and its magnitude; each package accepts and writes it in its own way
(`writeNumber` through a double, `reject_non_integer` and `write_number` through
`i64` and `u64`, `canonical_value` with Python's ints). A field keeps the code
point it is sorted by; Go and Rust compare UTF-16 units, Python code points. Each
package has its own list of envelope fields. The widths 2^53, 2^63 - 1,
2^64 - 1, 10^21 and the rounding functions are parameters under IEEE assumptions
(`DoublesAssumption`). Releases of `serde_json` differ in whether the literal
`-0` keeps its sign; `ZeroSigned` is either.

### ObjectFields, ObjectTypes, ObjectShapes, ObjectAuthoring

Three descriptions of the same objects, as tables. A row says in which container
a field is looked for, whether it has to be there, and which kinds of value it
may have. `ObjectFields` has the kinds and the two forms of row, `requireField` and
`optionalField`. `ObjectTypes` is the interfaces of `cdro.ts`, `capabilities.ts`,
`receipts.ts`, `workflows.ts`, `channels.ts`, `revocations.ts` and `perimeter.ts`, one
operator per interface. `ObjectShapes` is `src/validate.ts` and
`python/synoi_gap/validate.py`, one operator per validator; `validate` and
`py_validate` are the full-envelope validators.

An object is a function from places (container and field) to kinds of values, and
a kind is what some validator tells apart: the empty string, a string the field
asks for by name or form, the status `rate_limited`, zero, a negative number,
10^21, an integer written with a point or an exponent such as `1.0`, a fraction,
`null`, an array of more than ten elements, and so on. All elements of an array are
alike. Containers of one type have different names, so
that a name stands for a path. An empty string within an array of strings, which
only `completeness_scope.populations` refuses, is not a kind.

`PassedOn` is what a number becomes on its way from JavaScript to Python: `1.0` is
written as `1`, and an integer of 10^21 or more, which `Number.isInteger` accepts, is
written with an exponent and read as a float.

`ObjectAuthoring` supplies the objects: what `build_invocation_envelope`, `receipt`
and `revokeGapObject` return for any caller's input, and drafts that an author
changes field by field (`Put`, `Drop`), each state of which may be submitted to a
validator. A field whose container goes away goes with it. The members of an
interface that its validator never looks at (the content of a workflow's stages,
`requires_operator_approval`, the metrics of a receipt, and others) are named
there, in `UnreadContainers` and `UnreadMembers`: of these `ValidIsTyped` says
nothing, and a wrong type there would go unnoticed.

## What is checked

Twelve runs. Seven must find no error; five must find a counterexample, each
to a sentence of the repository's documentation (see below). TLC also evaluates
the assumptions on the constants in each.

| Run | Distinct states | Shows |
|---|---|---|
| `toolhook` | 315,266 | a tool runs only if granted (`RunsOnlyIfGranted`), a call is blocked only for cause (`BlockedForCause`), an approval more than one poll interval before the deadline is honoured (`EarlyApprovalHonoured`), each poll uses up some of the call's time (`PollingRunsDown`), the hook implements `GatedExecution` (`ImplementsGated`), and every call comes back, whatever the gateway does (`EveryCallReturns`) |
| `perimeter` | 635,152 | the pairwise pass decides the chain-wide definition (`VerdictExact`), a chain that passes has one perimeter in force at a time (`OnePerimeterInForce`), and of that perimeter a program and a reader of the text make the same, except exactly of the surfaces in both lists (`ReadingsPartWhereListedTwice`) |
| `receipt` | 247,420 | a copy that verifies is an issued receipt but for its detached fields (`VerifiedIsIntact`), and such a copy verifies (`GenuineVerifies`) |
| `capability` | 4,404 | authority narrows along a chain (`AuthorityNarrows`); the prefix matcher is the segment-wise one, and differs from its two comments exactly by the patterns with a star inside a segment and by the targets that go deeper (`MatchesBetweenComments`); a tool that passed the guard can be invoked, and gets at a normative capability if and only if its name is a wildcard over it (`NormativeOnlyByWildcard`) |
| `relay` | 15,104 | a portable object has one OID (`PortableHasOneOid`), what Rust accepts all accept (`RustIsStrictest`), relaying keeps a package's own OID (`RelayingKeepsOwnOid`) |
| `shapes` | 553,569 | of what TypeScript has validated and passed on Python refuses integers of 10^21 and more in three fields, and nothing else but a type and a field only one of the two knows (`PythonRefusesOnlyHuge`); a valid number can be hashed but for the fields named (`HashableOnceValid`), what the SDKs build is valid but for one status (`BuiltObjectsPass`), what is valid has its interface's type but for the members no validator reads (`ValidIsTyped`), and no validator but that of perimeter declarations requires what the interface leaves open (`RequiresOnlyRequired`) |
| `session` | 1,476,763 | a session outlives its block only if another block got at it (`LeaksOnlyIfDisturbed`), a block nobody disturbs is served on its own session (`UndisturbedServes`), no request starts on a session whose block was left (`NoUseAfterScope`) |
| `toolhook_openapi`, `toolhook_fallback`, `tool_names`, `relay_keys`, `shapes_status` | until the counterexample | the disagreements below |

Every property of the passing runs has a mutant in `PROJECT.json`: a plausible
mistake in the modelled code, kept in the module under a name of its own and
marked `mutant`, under which the same run finds the property violated.

The bounds, and why they suffice:

- *ToolHook*: two calls, one promptly served through a fail-closed hook, one through
  a permissive hook whose requests may be lost, late or fail and whose arguments
  may hold a float. The gateway's answers include a body that cannot be read and a
  status of no meaning. Calls share only the session, so what one can do to another
  two show. A timeout of 4 and an interval of 2 give a sleep that ends before, at
  and after the deadline, and an approval on either side of the margin. An interval
  longer than the timeout is left to the theorems, which are about every interval.
- *PerimeterChain*: all chains of up to three declarations from a set with every
  window over the times 0 to 2, inverted and open-ended ones among them, and
  strays that differ in OID, link, tenant or a subject field. A mistake that
  neighbours do not show needs three declarations. The proof has no bound.
  Two surfaces, one of which is in both lists of one declaration, twice in a list
  of another, and missing where a list is empty.
- *ClientSession*: three blocks that overlap in every order, a fourth session for
  whoever comes back to what the others left, and a task that only sends. The
  owners are interchangeable, and the run uses that symmetry.
- *SelfSignReceipt*: two keys whose default ids differ, at most two receipts, and
  edits of a representative of every class of field: content, signed but not
  content, neither, and detached. Mixing needs two receipts.
- *CapabilityMatch*: all names of at most five symbols over a letter, the dot and
  the star, which is enough for `a.a.*`, `*.a`, a lone star and malformed names,
  and chains of three grants. Names of tools: reserved and not, in capitals, padded
  with blanks on either side or both, with a blank inside, and wildcards over the
  normative name; `gap:` is shortened to a letter and a colon. A limit of two hops
  stands for ten: the type invariant says that no chain is longer, not that a chain
  of the full length is accepted.
- *CanonicalRelay*: doubles with a significand of three bits, so that integers
  are exact up to 8, and the other widths above it in their real order. Every
  literal form on both sides of every width in one field, and pairs in two.
- *ObjectAuthoring*: two edits of a full draft and of a least one, because the first
  may take a container away, open it or change what another field is compared
  with. The kinds written, six and for receipts a seventh, are those that two of the
  descriptions judge differently (`rate_limited`, `null`, `1.0`, 10^21, a fraction), the
  one limit on elements (more than ten) and what opens a container. A workflow
  definition has 85 fields; of it one is edited, to any kind.

`CHECK_DEADLOCK FALSE` is set where the system may stop: all calls returned, the
pass over, the chain at its greatest length, the draft edited as often as the
bound allows. Receipts and relayed objects can always take another step, and so
can a task that tries to send.

## Fairness

Only `EveryCallReturns` needs fairness, and `Fairness` in `ToolHook` assumes:

- *time passes* (`Tick`);
- *a sleeper wakes* (`Wake`): the event loop runs a task whose timer is due;
- *a request ends* (`TakeAskReply`, `TakeReadReply` or `RequestFails`): `GapClient`
  gives httpx a timeout (`client.py:64`, 10 s by default), so a request that is
  never answered raises. The timeout is per read; a server that trickles bytes for ever
  is not modelled;
- *a prompt call is answered* (`Decide`, `AnswerRead` for calls in `Prompt`). One
  of the two calls of the run is such a call; the other is answered as badly as the
  gateway likes, and that it comes back rests on the first three alone.

All are weak fairness, because nothing but the step itself disables them. Nobody
has to start a call, cancel it, decide a held one or close the session, and a
tool that runs need not end.

## What is proved

TLAPS proves thirty-one theorems, for any number of calls, tasks, chains, keys,
fields and edits, under the assumptions that stand by the constants:

- `ToolHook`: `SetsAssumption`, `TimesAssumption` (times are natural numbers),
  `OtherAssumption` (unknown statuses are none of the known), `HonestGateway` (a
  gateway says "allowed" only of a call it allowed, "approved" only of one that a
  person approved);
- `ClientSession`: `TasksAssumption` (no task is owner and caller),
  `SessionsAssumption`;
- `PerimeterChain`: `ChainsAssumption`, `AbsentAssumption`; `PerimeterReading`:
  `ListsAssumption`, `NothingAssumption` (no surface is named by the sentence for
  an empty list);
- `SelfSignReceipt`: `KeysAssumption`, `EditsAssumption` (an editor can remove a
  signature or take one from another receipt but not make one: Ed25519 is ideal);
- `CapabilityMatch`: `SymbolsAssumption`, `NamesAssumption`, `HopsAssumption`; `McpToolNames`:
  `ToolNamesAssumption`, `LowerAssumption`, `PrefixAssumption` (the prefix is in lower
  case, and neither it nor a normative name has blanks at an end),
  `NormativeAssumption`;
- `ObjectAuthoring`: `EditsAssumption`;
- `CanonicalRelay`: `FieldsAssumption`, `CodesAssumption` (keys are Unicode scalar
  values), `ZeroAssumption`, `WidthsAssumption` (the order of the widths),
  `DoublesAssumption` (rounding is the identity on exact integers, the shortest
  digits of a double read back as that double).

| Theorem | Invariant it rests on, and why |
|---|---|
| `TypeCorrect` | `TypeInv`: types, and that a polling call has a deadline, without which the arithmetic of `Tick` and `Less` is about `NoDeadline` |
| `RunsGranted` | `HonestInv`: a call not yet asked has no ruling, and an answer on its way agrees with a ruling that later steps cannot contradict. The property alone says nothing of answers in flight |
| `BlocksForCause` | `CauseInv`: while a call waits, what it heard last is not yet a reason to block |
| `PollsRunDown` | `TypeInv` and `Awake` (no sleep is left over while a call reads): a GET that settles nothing leads to a sleep, which is paid for when it begins, and a sleep that is over leads to a GET only if time is left |
| `EarlyApprovals` | `EarlyInv`: where a promptly served, approved call stands in its loop and how much time it has there, so that one more GET falls before the deadline |
| `ImplementsGatedExecution` | `TypeInv` and `HonestInv`; a step changes one call's fate or ruling once (`FateStep`, `RulingStep`) or nothing abstract (`SameStep`) |
| `ChainTypes`, `ChainVerdictExact` | `LoopInv`: after `i` turns the reasons are empty exactly if the prefix is coherent; `PairExtends` carries coherence over one more pair |
| `OneInForce` | follows from the two above (`ExactMeansOne`): in a coherent chain windows advance |
| `PartWhereListedTwice` | `OneInForce` makes the two declarations one; the rest compares the two functions list by list (`InText` says which lines a text has) |
| `SessionTypes`, `TurnsLeakNothing`, `BlocksServed`, `RequestsInScope` | `ScopeInv`: besides the three properties, which block owns which session, that no two blocks own the same, that a session named anywhere has been opened, and that an exit under way has closed its session if nobody disturbed it |
| `ReceiptTypes` | inductive as it stands, with `KeyIdIsThere` (a key has a default id) and `EnvelopeTyped` |
| `VerifiedReceiptsIntact`, `GenuineReceiptsVerify` | `SignedInv`: every issued receipt is well formed, and every signature a copy bears was made for an issued receipt; `ContentIsSigned` says that no field of the OID is unsigned |
| `DelegationNarrows` | `ChainInv`: each grant covers all later ones, not only the next, by `MatchesTransitive` |
| `GrantTypes` | inductive as it stands |
| `OnlyWildcardsReach` | `DelegationNarrows`' invariant reduces the chain to its first grant (`InvByWildcard`); `GuardSeesPrefix` (what begins with the prefix begins with it when trimmed and in lower case) and `GuardSeesNormative` (a normative name itself does not pass) do the rest |
| `LiesBetweenComments` | `GrantTypes`' invariant, and three facts about any two names. `MatchesIsCovers` rests on `SegmentShape` (a segment ends at the next dot or with the name), `SegmentsTell` (no two names have the same segments), `StarLast` and `PrefixContinues`; `HeaderAddsStars` and `ChildrenOmitDeeper` compare the matcher with its comments |
| `TypeCorrect` of objects | `AuthoringInv`, its part `Authored`: fields known, held and of a kind. Builders join records container by container (`HoldsLeft`, `HoldsRight`); taking a field away takes four rounds at most, because places nest that deep (`WithoutAttached`) |
| `BuiltAccepted` | `AuthoringInv`, its part `Built`: a built object has the form of what a builder makes (`InvocationForm`, `ReceiptForm`, `RevocationForm`), which says of each field whether it is there and of which kinds. The property alone says nothing of how an object came about |
| `OnlyHugeRefused`, `TypedOnceValid`, `NothingElseRequired` | `AuthoringInv` for the shape of objects, and one comparison of tables per type in `ObjectTablesProofs`: each row of one is implied by a row of the other. For the first, `FitsInPython` says that without an integer of 10^21 in the three fields Python accepts, `HugeRefused` that with one it does not, because the Python tables have a row for each of them that takes ints alone. The comparison of two fields, which only perimeter declarations have, plays no part in the first two and is outside the last |
| `HashableValid` | `AuthoringInv`, and that no table but two rows takes a fraction (`FractionsKnown`) |
| `RelayTypes` | inductive as it stands; `WritesTyped` says what a package writes is a value |
| `PortableOneOid` | `PortableInv`: besides the property, what has been relayed still has the authored core; `PlainWritten`, `OrderAgrees` (without a mixed pair of keys UTF-16 order is code point order) and `OneEnvelope` |
| `RustStrictest` | `RustAccepts`, from the order of the widths |
| `RelayingStable` | `WritesTwice`: writing what one has written changes nothing |

Every invariant and every action property of a passing run is stated by one of
these theorems. The tables of `ObjectTypes` and `ObjectShapes` are joined with an
operator of their own, `\sqcup` in place of `\cup`, and the parts of built objects with
`++`: a proof that has to take a table of eighty rows apart does it by a few lemmas
about joining (`ObjectTablesProofs`), never by expanding it. `ObjectTablesProofs` is
about tables alone and `ObjectAuthoringProofs` about the objects that fit them.

Model-checked only: `EveryCallReturns`, because liveness under fairness is out of
the prover's reach. What is in reach is proved: by `PollsRunDown` the time of a
polling call, and within the same time the round it is in, only ever run down, so
that only finitely many steps of its own are left to it whatever the timeout and the
interval; that those steps are taken is what `Fairness` says. An interval of zero is left
out, since the loop then turns as often as answers come. The five disagreements
are counterexamples and have nothing to prove.

## Disagreements between code and documentation

Each has a run that ends in a counterexample and an entry under "findings" in
`PROJECT.json`, which quotes the sentence.

1. `toolhook_openapi`: the hook waits for the statuses "allowed" and "deferred",
   `openapi.yaml` specifies `ok` and `pending_workflow`. Against a gateway that
   conforms to it the hook denies what the gateway allowed.
2. `toolhook_fallback`: `deny_on_unknown_capability` is documented for unmapped
   tools; the code consults it for every exception of the POST, a 403 included.
3. `relay_keys`: Python sorts keys by code point, the specification and the other
   packages by UTF-16 unit.
4. `shapes_status`: `DecisionStatus` and `openapi.yaml` have the status
   `rate_limited`, and `receipt()` builds it; `validateGapDecisionReceiptBody` refuses
   it, so that a receipt of the package fails the package's own validator.
5. `tool_names`: the gateway is to reject any name of an MCP tool that "matches any
   normative capability name", by a predicate that compares for equality. The names
   `*` and `email.*` pass it, and as capability names match `email.send`. Under the
   naming `mcp.<server_id>.<tool_name>` of the same comment a star in the tool's name
   would stay below the prefix; the predicate is documented for server names too.

Differences that a passing run and a theorem state exactly, one way and the other:

- `src/capabilities.ts:731` says that a pattern ending in `*` matches any target with
  the prefix before it; the code asks for a dot before the star, as the comment at
  762-764 does. `src/capabilities.ts:761-762` says a wildcard stands for direct
  children only; the code compares a prefix and so covers all descendants.
  `MatchesBetweenComments` says that the code lies between the two, and names what
  each adds or leaves out.
- A surface under `chokepoints_active` and under `blind_spots` is "governed" to
  `classifySurface`, whose comment calls a surface a declared blind spot if it is in
  `blind_spots` (`src/perimeter.ts:210-212`), and in the text it is under NOT GOVERNED
  as well, where activity "leaves no record" (396-399). `ReadingsPartWhereListedTwice`.
- `src/validate.ts:90` accepts 10^21 and larger as integers. `JSON.stringify` writes them
  with an exponent, `json.loads` reads that as a float, and
  `python/synoi_gap/validate.py:67`, `:226` and `:254` refuse it.
  `PythonRefusesOnlyHuge`.

Noted while reading, without a run:

- `hitl_timeout` is documented as the time a person has; an approval within the
  last sleep is not seen. One poll interval is the margin, which is what the
  theorem `EarlyApprovals` says.
- Go rounds integers beyond 2^53 where Rust and Python do not; `PortableHasOneOid`
  is about objects without them.
- Two overlapping `async with` on one `GapClient` leak a session, and the first to
  leave closes the one the other is using. Nothing says that one may do this;
  `LeaksOnlyIfDisturbed` and `UndisturbedServes` say that nothing else leaks or fails.
- The comment at `src/capabilities.ts:96-102` asks consumers to import the name guard;
  `src/validate.ts:284-297` has a weaker one of its own. `NormativeOnlyByWildcard`
  has that the difference is harmless in one direction: what the guard has passed the
  validator accepts.
- `OPTIONAL_CAPABILITIES_SPEC.md:206-213` gives capability patterns as one syntax, in
  which "a `*` in any segment matches any single segment value" and `*.lighting.dim`
  matches `home.lighting.dim`. `capabilityMatches`, which it names, honours a star in
  the last segment alone.
- `cost_usd` (`src/validate.ts:313`) and `effective_at_ms` (`:1021`) may be
  fractions, which canonicalization refuses; `HashableOnceValid` states that no
  other validated number may.
- `python/synoi_gap/validate.py:7-10` says the validators refuse floats wherever
  they are hashed; three fields are looked at. `validate.py:16` lacks
  `gap:perimeter_declaration`, and `:257` checks a field of a PIP response that
  TypeScript does not know. `validate.py` raises on some inputs (an object
  that is not a dict, an unhashable `type`) instead of returning errors.
- `python/README.md:38-40` says `gap_version` and `supersedes` are stripped before
  hashing; `_EXCLUDED` in `oid.py` keeps them in.
- `1.0` is an integer to Go and TypeScript and an error to Rust and Python.

## What is not modelled

- The gateway: only what the code expects of it. Its idempotency, storage and
  authorization are its own.
- `src/canonicalize.ts`: a re-export of a package that is not in the repository.
- In the canonical form: nested values, string escapes, the permissive profile.
- The layout of `renderPerimeterDeclaration`'s text.
- `SyncGapToolHook`'s event loop per call: what httpx does with a connection of
  another loop is not in the repository.
- Hybrid signatures and the v1 projection in Go and Rust: one call of a library
  each, with nothing that could go wrong over several steps.
- The arguments and results of HTTP methods, constants, re-exports, the interfaces of
  channel adapters, and bodies without a validator (keyrings, offline bundles,
  break-glass tokens, erasure events): nothing in the repository evaluates them.
- The vector generator, a build script.
- Error messages, logging, formatting.

## Plan

In order of weight:

1. `CanonicalRelay` with nested objects (as a tree of bounded depth) and strings
   that have to be escaped; the permissive profile.
2. Composition: `ToolHook` over `ClientSession` in place of the bit `open`, with the
   refinement between the two stated and proved; invocations whose grant comes from
   a `CapabilityMatch` chain, ruled on by a gateway that walks it.
3. `verify_hybrid` in Go and Rust against one definition.
