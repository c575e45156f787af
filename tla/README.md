# ptv-mcp in TLA+

A verification project for ptv-mcp, the server through which municipalities
read and edit their content in PTV (Palvelutietovaranto): an MCP server and a
web application in TypeScript over PostgreSQL and PTV's REST interfaces v11
(read and write) and v12 (read). Paths below are relative to the `src/src`
directory of the repository unless they start with `docs/` or `skills/`.

The project has nine groups of modules:

| group | modules | what it answers |
|---|---|---|
| proposal queue | `ProposalLifecycle`, `ProposalQueue`, `MyTasks`, `MCProposalQueue`, `ProposalQueueProofs` | can calls that cross resolve a proposal twice, pass a check that no longer holds, or leave a false trail; do the task lists agree with the checks? |
| review campaigns | `ReviewCampaigns`, `MCReviewCampaigns`, `ReviewCampaignsProofs` | do the documented rules of a campaign hold, and which of them only as long as calls do not cross? |
| accounts and sign-in | `Accounts`, `OidcSignIn`, `OAuthGrants`, `MCSignIn`, `SignInProofs` | is what is good for one use used once, whatever crosses; does every way of signing in look at the lock; does a connection get no more than was selected? |
| tenants, connections, adapters | `Tenants`, `PtvConnections`, `AdapterRegistry`, `MCAdapterRegistry`, `AdapterRegistryProofs` | who is handed an adapter, with which credential, and does the trail tell? |
| reads from PTV | `OrganisationCatalogue`, `CodeNames`, `PtvReads`, `MCPtvReads`, `PtvReadsProofs` | is what is cached one download, not too old, and is a failure forgotten? |
| writes to PTV | `PtvRecords`, `WriteMapping`, `PtvWrites`, `MCPtvWrites`, `PtvWritesProofs` | does an approved change arrive, whole, and nothing else with it? |
| content and manual publishing | `ChannelFields`, `FieldTypes`, `ChannelRules`, `ContentChecks`, `FieldFormat`, `FieldDiff`, `ManualPublishing`, `MCManualPublishing` | do conversions, rules, checks, difference and sheet agree about what a field means? |
| PTV v11 client | `V11Client`, `V11ClientProofs` | do requests that share a token cache all end, with few logins and bounded retries? |
| paging and searching | `PtvList`, `IdWindow`, `WorkerPool`, `Filters`, `OrganisationSearch`, `SearchProofs` | is the answer to a search exactly the page asked for? |

To check: `tlc -config X.cfg M` for the modules and configurations under
[Runs](#runs), `tlapm M.tla` for the eight `*Proofs` modules.

## The system

Node.js runs the server, one or more processes on one database. JavaScript is
not interrupted between two `await`s; at an `await` any other call of the same
process may run, and calls of other processes run at any time. Each
`withContext` (`db/context.ts`) is one database transaction, usually around a
single statement. Almost no operation holds a transaction over several
decisions, so *the awaited statement is the unit of atomicity* everywhere in
this project, and a call that makes n of them is a program of n steps.

### Inventory

**Proposal queue** (`mcp/proposalQueue.ts`, `mcp/proposalPipeline.ts`,
`mcp/proposalKinds.ts`, `proposals/proposalService.ts`). State: the
`proposals` rows (status, proposer, resolver), `proposal_reviewers` (who must
sign off, and what they said), comments, the audit log, and what PTV itself
holds. Operations: queue, request review, sign off, reject, approve and export,
approve and apply, confirm a manual publication, comment. Called by MCP tools
and by web requests; calls PTV through an adapter that the registry resolves,
asks the tenant's four-eyes setting, and writes audit entries. Hard: every
check is made on rows read statements before the write they guard; the write to
PTV and the update of the row cannot be one transaction; answers get lost.
Correct if: a proposal is resolved once; "applied" has evidence; the audit trail
is true; four-eyes review and required sign-offs are not passed by; a write
settles its proposal.

**Review campaigns** (`reviews/reviewCampaigns.ts`, `reviews/reviewService.ts`).
State: campaigns, review items (status, reviewer), and the link from a proposal
to an item. Operations: start, assign, propose for an item, attach a proposal,
complete, reopen, close, list. A link makes the
item's reviewer a required reviewer of the proposal: the queue and the campaigns
meet in that list. Hard: a link, a decision, an approval and a closing may
cross. Correct if: one campaign is open at a time; a decided item agrees with
its proposals; a closed campaign stays as it is; a linked proposal waits for the
reviewer; nobody reviews a proposal of their own.

**Accounts and sessions** (`auth/authService.ts`), **OIDC sign-in**
(`oidc/oidcService.ts`, `oidc/oidcClient.ts`), **MCP OAuth server**
(`mcp/oauthService.ts`, `mcp/oauthRoutes.ts`). State: users with failed-login
counts and locks, refresh tokens and their successors, mailed tokens, login
states and one-time codes, the identity links, authorization codes and grants.
They meet in the user row: three ways of signing in look at one lock. Hard: each
is read, then updated. Correct if: what is used once is used once, wrong
passwords add up to a lock that closes every way in, sessions that were ended
stay ended, and a connection is made for a member over what is configured.

**Tenants, memberships, roles** (`tenants/tenantService.ts`, `auth/rbac.ts`),
**PTV connections** (`routes/ptvConnections.ts`, `routes/ptvV11ApiUser.ts`,
`routes/ptvV12.ts`, `credentials/*.ts`), **adapter registry**
(`ptv/dbAdapterRegistry.ts`). State: memberships and settings, adapter
configurations, tenants' credentials, users' own PTV tokens, the audit trail.
Hard: membership, configuration and credential are read in sequence, and saved
in sequence by others. Correct if: a write adapter goes to Publishers only, with
the credential of the configuration's scope; a disconnected account is used no
more; the trail tells how the tenant came to be as it is; a write leaves an entry.

**Organisation catalogue cache and shared downloads**
(`db/ptvOrganizationCacheService.ts`, `organizationCatalogue` and
`organizationList` in `ptv/v12/adapter.ts`, `refreshOrganizationCache` in
`ptv/v11/adapter.ts`), **v12 code names** (`ptv/v12/codeNameCache.ts`,
`db/ptvCodeNameCacheService.ts`), **organisation content**
(`ptv/organisationContent.ts`). State: the tenant's catalogue rows, each with the
time it goes stale; a promise per list in an adapter; a map of names per process
over a table. Hard: concurrent refreshes, rows that go stale between the
freshness check and the search, a failed download that others wait for, an entry
set while others are being saved. Correct if: a refresh replaces the whole
catalogue, a failure does not stick, a name is used no longer than its time, and
a report has everything once.

**v11 adapter and write mapping** (`ptv/v11/adapter.ts`, `ptv/v11/*Mapping.ts`,
`ptv/v11/connectionWrite.ts`, `ptv/v11/mappers`, `validation/`). State: PTV's
items. A PUT replaces lists as a whole, ignores empty ones, wants a flag to clear
others; a service update is two PUTs built on one read; PTV has no version check.
Correct if: what was approved is in PTV and the rest is as it was.

**Content checks, validation, formatting, difference, manual publishing**
(`quality/contentChecks.ts`, `validation/channelRules.ts`,
`validation/changeValidator.ts`, `ptv/serviceHours.ts`,
`ptv/v11/channelFields.ts`, `format/ptvFormat.ts`, `mcp/proposeChanges.ts`,
`mcp/manualPublish.ts`). Functions without state, written apart and made to
agree, over a process that takes days: proposed, approved, entered by a person,
confirmed. Correct if: what is compared, printed, checked and sent means the
same.

**PTV v11 client and token cache** (`ptv/v11/client.ts`,
`ptv/v11/auth/apiLogin.ts`). State: per request, the attempt and whether a 401
has been answered; process-wide, a token per API user and the login under way.
Operations: request with retries, log in, invalidate. Hard: requests share
tokens, logins and the failures of both. Correct if: one login at a time, a
bounded number of sends, a fresh token after a 401, an end to every request.

**Paging and searches** (`ptv/v11/pagination.ts`, `ptv/http.ts`,
`ptv/paging.ts`, `searchOrganisations` in `ptv/v11/adapter.ts`). State: local to
a search; `mapWithConcurrency` shares a counter between workers. Hard: PTV fixes
the page size, so a window starts and ends inside pages; pages are read
concurrently; ids without an organisation leave holes. Correct if: the answer is
exactly the page asked for, in order, and no item is read twice.

**Direct write tools, audit log, export, MCP transport, HTTP routes, web pages,
encryption, database schema.** The tools are those of the components above; the
rest keeps no state that interleaves.

## What is modelled

### ProposalQueue

One tenant. `role` and `fourEyes` are the memberships and
`tenants.require_four_eyes`; `row` and `decision` the `proposals` and
`proposal_reviewers` rows; `audit` the ResolveProposal and ConfirmManualPublish
entries; `inPtv` whether PTV holds what a proposal proposes. `call[c]` is a call's
local state: who makes it, on what, over which kind of connection (`via`), the
reviewers it has read (`held`), the status its own update set (`moved`) and its
next statement (`pc`).

| code | actions |
|---|---|
| `queueKindProposal` | `StartQueue`, `Insert` |
| `requestReview`, `addReviewers` | `StartRequestReview`, `Pick`, `AddReviewers` |
| `signOffProposal`, `recordDecision` | `StartSignOff`, `RecordDecision` |
| `resolveProposal`: checks | `StartResolve`, `CheckFourEyes`, `CheckReviewers` |
| `approveForExport` and `apply` of the kinds, `auditedApply` | `Recheck`, `ReadTarget`, `ResolveWriteAdapter`, `WritePtv`, `AuditSuccess`, `AuditFailure` |
| `markResolved`, `transition`, the audit entry | `MarkResolved`, `Record` |
| `confirmManualPublish`, `markPublished` | `StartConfirm`, `CheckPtv`, `MarkPublished`, `Record` |
| a crash, a failed statement | `CutOff` |
| `TenantService`, people in PTV's own pages | `SetRole`, `SetFourEyes`, `EditPtv` |

Three kinds of proposals behave differently and are told apart: service updates
(which ask for the role again and re-read their target), creations (which read
nothing beforehand) and the other updates. A web request's tool context has no
write API version, which is why its applies fail before they reach PTV.

Abstractions. The content of a proposal is whether PTV holds it. The role check
and the first read of a call are one step with its start. One call of
`request_review` names one reviewer. Comments change nothing else and are left
out. Each call is made once; `Calls` bounds how many there are.

`excused`, `approvedOnce`, `landed` and `seen` are history: who began a call
while four-eyes was off, who has ever signed off, whose write reached PTV, who
found the change there. No action reads them.

**MyTasks** is `listMyTasks` (`mcp/myTasks.ts`) over the queue's state: of each pending
proposal whether it can be resolved, waits for reviewers, or for another member than
its author, and whose sign-off is asked for. It reads and changes nothing, so it is
operators and one property of the queue's steps (`TasksTellWhoActs`). The lists are
read in one piece here; in the code they may be out of date when acted on.

**ProposalLifecycle** is what the store promises to its callers: pending, then
one of four resolutions in one user's name, then, for an exported proposal,
`applied` in the same name. `ProposalQueue` is shown to implement it
(`RefinesLifecycle`), by TLC on the instance and by proof for all.

### ReviewCampaigns

One organisation and environment. `campaign`, `item`, `proposal`, `reviewers`
and `signed` are the rows; `call` is as above. A finished call becomes idle
again, so any number of calls is made; `Calls` bounds those under way together.

| code | actions |
|---|---|
| `startReviewCampaign`, `createCampaign` | `StartCampaign`, `Create` |
| `assignReviewItems`, `closeReviewCampaign` | `StartOnCampaign`, `Assign`, `Close`, `CloseCampaign` |
| `requireOpen`, `requireReviewerOf` | `CheckCampaign`, `MayReview` |
| `queueForReviewItem` | `StartPropose`, `CheckCampaign`, `InsertLinked`, `Reopen`, `AddReviewer` |
| `attachProposalToReviewItem` | `StartAttach`, `CheckCampaign`, `SetItem`, `Reopen`, `AddReviewer` |
| `completeReviewItem` | `StartComplete`, `CheckCampaign`, `ListLinked`, `Decide` |
| `reopenReviewItem` | `StartReopen`, `CheckCampaign`, `SendBack` |
| the queue | `QueuePlain`, `StartSignOff`, `Sign`, `StartResolve`, `MarkResolved` |

Of the queue only what a link depends on is here. A call's role check and first
reads are one step with its first decision; an Approver, who may resolve a
proposal but not run a campaign, counts as a Publisher. Items exist from the start and count once their campaign
has been inserted. Listing, filtering and the campaign's report change nothing.
`due[p]` is history: the reviewer of the item when `p` was linked to it by
somebody else.

### Accounts, OidcSignIn, OAuthGrants

Each module EXTENDS the one before and adds its tables, so that `MCSignIn` runs
all of them together. A request is made once, is `call[c]`, and takes one step for
each database statement.

| code | actions |
|---|---|
| `register`, `verifyEmail` | `StartRegister`, `InsertUser`, `IssueEmailVerification`, `StartVerifyEmail`, `MarkVerified` |
| `verifyCredentials`, `issueSession` | `StartSignIn`, `RecordFailedLogin`, `ClearFailed`, `IssueSession` |
| `refresh`, `logout` | `StartRefresh`, `IssueSession`, `RevokeReplaced`, `RevokeAllRefreshTokens`, `Logout` |
| `requestPasswordReset`, `resetPassword` | `StartPasswordReset`, `RequestPasswordReset`, `StartResetPassword`, `SetPassword`, `RevokeAllRefreshTokens` |
| `OidcClient.discover` | `Discover`, `DiscoveryEnds` |
| `/oidc/login`, `/oidc/callback` | `StartOidcLogin`, `SaveLoginState`, `StartCallback`, `Redeem` |
| `resolveUser`, `assertCanSignIn` | `FindLinked`, `FindExact`, `FindAlike`, `CreateUser`, `Link`, `AssertCanSignIn` |
| `createWebHandoff`, `/oidc/session` | `CreateWebHandoff`, `StartOidcSession` |
| `registerClient`, the sign-in form, the selection page | `RegisterClient`, `StartConsent`, `ConnectionSelectionPage`, `RequestNoLongerValid` |
| `POST /oauth/authorize`, `createAuthorizationCode` | `StartSelect`, `EnsureV11ReadDefaults`, `CheckConfigs`, `ValidateClient`, `CreateAuthorizationCode` |
| `POST /oauth/token`, `mcp:token` | `TokenRequest`, `StartCli`, `StartExchange`, `ConsumeCode`, `InsertGrant`, `RefreshGrant`, `MintToken` |
| time, an administrator, a process that ends | `Expire`, `ExpireCode`, `Administer`, `CutOff` |

Abstractions. A user is named by the spelling of their email; `Emails` are the
spellings of one address, which the code compares in two ways. Hashes, token
formats and mails are left out: a token is named by the request that made it. One
identity of the provider, one client, one organisation, one environment.
`crossed`, `wrong`, `ends`, `caught` and a session's `since` are history: whether two
requests have been under way at once, how many wrong passwords there have been since
the last right one, how often all sessions of a user were ended, which requests were
under way when an account was locked, and from which end a line of refreshes counts.

### Tenants, PtvConnections, AdapterRegistry

| code | actions |
|---|---|
| `createTenant`, `addMember`, `updateMemberRole`, `removeMember` | `StartCreateTenant`, `CreateTenant`, `StartMemberChange`, `SetRole`, `RecordChange` |
| `updateSettings` | `StartUpdateSettings`, `ReadBefore`, `SetFourEyes`, `RecordChange` |
| saving a v12 key or an API user | `StartSaveKey`, `ReadPrevious`, `StoreCredentials`, `UpsertConfig` |
| connecting an account | `StartConnect`, `StoreConnection`, `ListTenants`, `EnsureV11ReadDefaults`, `ReadDefaultsFail`, `RecordConnectionEvent` |
| disconnecting it | `StartDisconnect`, `RevokeToken`, `RevokeConnection` |
| `DbPtvAdapterRegistry.resolve` | `ReadMembership`, `ListConfigs`, `ResolveCredential` |
| a read tool | `StartRead` and the three above |
| `ptv_apply_changes` | `StartApply`, `RequireApprover`, resolve, `RecordProposed`, `RecordValidated`, resolve again, `WritePtv`, `RecordApplied`, `RecordFailed` |
| a request that is cut off or fails | `Cut` |

One environment; encryption gives back what was stored. `authority` and `crossed`
are history: what a user was allowed at some moment of the request.

### OrganisationCatalogue, CodeNames, PtvReads

| code | actions |
|---|---|
| `searchOrganisations` of a tenant's adapter | `CheckFresh`, `ListCatalogue`, `HydrateCatalogue`, `ReadByIds`, `SearchRows` |
| `replaceCatalogue`, one transaction at read committed | `DeleteRows`, `InsertRows` |
| `organisationsInScope` | `ReadRoot`, `ChooseScope` |
| `CodeNameCache` | `LoadRow`, `Prime`, `AskName`, `RememberName`, `BeginFlush`, `Save` |
| `organizationList`, its completion, its failure | `AskList`, `LoadV11List`, `LoadV12List`, `HydrateList`, `ListFails`, `TakePage` |
| the search tools, `getService`, `fetchAll` | `StartRead`, `GetService`, `TakePage`, `Complete` |
| time, and PTV | `Tick`, `CatalogueChanges`, `VocabularyChanges`, `ContentChanges` |

Services stand for channels and collections too, which the same code reads. One
code stands for all. A transaction deletes the rows it sees when its statement
starts, waits for another's insert of the same organisation and then fails on the
unique key; the order in which two may commit is left open. A report reads its
organisations one after the other, where the code asks for all at once
(`Promise.all`): what each gets comes from the same downloads. `InScope` is the loop of
`organisationsInScope`, as a function of the number of its rounds; `Filter`, in the
module `Filters`, is the `filter` of a list of rows here and of ids in
`OrganisationSearch`.

### PtvRecords, WriteMapping, PtvWrites

`PtvRecords` is PTV, external: what an item of each kind is, what a PUT makes of
it, what a GET shows, and what the mappers read from that. `WriteMapping` is the
code between: for services, each type of channel, connections and organisations
the body of a PUT or POST, and the rules that are asked beforehand. Both are
operators. `PtvWrites` is what uses them:

| code | actions |
|---|---|
| `approve` of a kind: read, merge, validate | `Approve`, `Validate`, `ValidateDetails` |
| the adapter's apply methods | `ReadLatest`, `ReadRelations`, `PutItem`, `PutRelations` |
| creating an item | `Create` |
| `auditedApply` | `Audit` |
| reading the general description | `ReadDescription` |
| people in PTV's own UI | `EditInPtv`, `PublishInPtv` |

A list field is a set of entries, told apart by type and language where PTV does;
a text is one of a few. Reads and PUTs fail, and a PUT may be carried out without
an answer. What a validation looks at is the version a GET without a status shows,
which is not the draft on top of a published one; `ValidateDetails` reads the
connections the same way (`getConnectionsFor`). A general description that PTV does
not show (404) is read as none, and then nothing is filtered. PTV keeps of a service's
connections what the PUT lists and nothing else (`PutConnections`, external, as
`connectionWrite.ts` and `docs/ptv-v11-notes.md` describe it). The connections of a new
item (`writeMapping.ts:202`, `channelWriteMapping.ts:107`) are left out. The model's
validation is laxer than the code's in what the write does not depend on: limits, uris,
main-only classes, a phone number per language and the address of a service location
(`changeValidator.ts`, `channelRules.ts:261-279`); it lets more through, never less.
PTV takes a status by `TakesStatus`: what has been published does not become a draft
again (`docs/ptv-v11-notes.md`). `PtvRecords` defines `@@` and `:>` itself, as the module
`TLC` does, because what the prover is to reason about has to be written in TLA+.

### ChannelFields to ManualPublishing

Operators, a module per source file: `ChannelFields` (the structured fields in
both forms, and `serviceHours.ts`), `FieldTypes` (their types), `ChannelRules` and
`ContentChecks` (the validator's and the checks' findings), `FieldFormat` (what a
value prints as), `FieldDiff` (the comparison and the sheet). `ManualPublishing`
is the process on top of them:

| code | actions |
|---|---|
| `queueKindProposal` with its validation | `Queue` |
| `approve_and_export`, which does not validate | `ApproveForExport` |
| a person who follows the sheet | `Enter` |
| `confirmManualPublish`: what it reads from PTV | `CheckPublished` |
| `markPublished` | `MarkPublished` |
| others in PTV, and time | `EditElsewhere`, `Archive`, `NextDay` |

A text is a model value whose *shape* is what the rules' patterns see in it:
length, contact details, style, repetition. Days are numbers. The operators are
checked through the process, on every item and change of the instance. `Handler` says of
each kind of proposal what it is about and whether its export reads the item.
`checked` is what a confirmation under way has read; `editedSince` is history, the
fields edited after that. Approving reads the item and updates the row in one step.

### V11Client

`req[r]` is a request's place in `PtvV11Client.request`; `cached`, `stale`,
`inFlight` and `logins` are `V11ApiTokenCache`. A token is the number of the
login that obtained it. PTV is external: it answers as it likes, rejects any
token at any time and loses any answer.

Steps are larger here than elsewhere because the cache lives in one process: what
lies between two network answers runs without interruption, so that reading the
cache and sending are one step (`SendCached`), and the end of a login resumes
everyone who waited for it (`LoginSucceeds`, `LoginFails`). `Reauthenticate` is
the code's first 401 (`attempt--` before the loop's `attempt++`), `RejectedAgain`
the next one, `Retry` and `GivesUp` the other failures. One API user is modelled;
others have cache entries of their own and do not meet it.

### OrganisationSearch

`searchOrganisations` of the v11 adapter without a cached catalogue, composed
of the helpers it calls:

- `PtvList`: PTV's list, external: `total` ids in pages of a size PTV chooses;
  a page past the end is empty. The list does not change while it is read.
- `IdWindow`: `fetchIdWindow`, the loop over the pages a window lies across.
- `WorkerPool`: `mapWithConcurrency`, with any number of items and workers, any
  of whose calls may fail.
- `OrganisationSearch` EXTENDS the last two: without a query the window's ids
  (`ReadWindow`, `WindowRead`); with one, page 1 and then the others through the
  pool (`fetchAllPages`: `FirstPageRead`, `ReadLaterPage`, `CatalogueRead`); then
  the organisations by id, in batches, some of which PTV leaves out
  (`fetchListByIds`: `ReadBatch`, where all of a batch may be left out); then the page cut out of them (`Answer`,
  `paginate`). Any request may fail (`SearchFails`); the pool's other workers
  then carry on, as they do in the code.

Names are abstract: any subset of the catalogue matches the query. The `totalCount` of
an answer, an estimate where PTV gives none, is left out.

## Runs

| run | instance | shows |
|---|---|---|
| `queue` | 2 users who start as Publishers, 1 service update, 2 calls of any kind, 1 change of a role or of four-eyes, faults | `TypeOK`, `ResolutionsAreTrue`, `ApprovalsAreGated`, `DecisionsKept`, `RefinesLifecycle` |
| `queue_live` | 2 users, 1 creation, 2 calls, no faults, fair | `ResolutionsSettle`, `TasksTellWhoActs` |
| `campaigns_serial` | one call at a time; 2 campaigns, 2 items, 2 proposals, 2 users | every documented rule: `RulesHold`, `SettledStays`, `ReviewerGates` |
| `campaigns` | two calls at a time, faults, fair; 1 campaign, 1 item, 1 proposal, 2 users | what is left when calls cross: `NobodyReviewsOwn`, `RecordSettles` |
| `sign_in` | 2 requests of any kind, 2 spellings of one email, a lock after 2 wrong passwords, 1 event (something expires, is administered, or is cut off) | `EndedSessionsStayEnded`, `UsedOnce`, `LockoutHolds`, `ConnectionsFit` |
| `adapter_registry` | 2 requests of any kind, 2 users, 2 tenants, 1 that is cut off or fails | `TrailIsTrue`, `ConnectionsTakeEffect`, `AdaptersAreEntitled`, `WritesAreRecorded`, `ApiUserStays` |
| `ptv_reads` | 2 reads in 2 processes, an organisation with one below it, 2 services of which one row lacks fields, 1 failure or change in PTV | `CatalogueIsWhole`, `NamesAreKept`, `ContentOnce`, `FailuresAreForgotten` |
| `ptv_writes` | 2 applies on one item of each of seven kinds, changes of one field or of two that depend on each other, new items with any one field left out, 1 failure or edit | `RestIsKept`, `WrittenAsApproved`, `ConnectionsKeepDetails`, `AgainIsOnce`, `ValidIsAccepted` |
| `content` | an item of each of seven types, every value of `MCHeld` in a field and every change of `MCProposed`, 4 days, 1 edit by others | `ConversionsAgree`, `EnteredLeavesSheet`, `ChecksAgree`, `ConfirmedIsInPtv` |
| `v11_client` | 2 requests, 2 retries each, fair | `LoadBounded`, `RetriesWithFreshToken`, `EveryRequestEnds` |
| `organisation_search` | lists of 0 to 6 ids, pages of 1 to 3, every page 1 to 3 of size 0 to 3, batches of 2, 3 workers, requests that fail | `MapsInOrder`, `SearchIsExact`, `SearchEnds` |
| `queue_not_allowed` | as `queue`, without changes and faults | the code does not keep `NotAllowedLeavesPending`: see [Findings](#findings) |

Several properties are conjunctions of named parts about one question:

| property | parts |
|---|---|
| `ResolutionsAreTrue` | `ResolvedOnce`, `AuditAgrees`, `AppliedMeansInPtv` |
| `ApprovalsAreGated` | `FourEyesHeld`, `SignOffsGate` |
| `ResolutionsSettle` | `WriteSettles`, `ResolutionAudited` |
| `RulesHold`; `SettledStays` | `OneOpenCampaign`, `ConfirmedIsSettled`, `ChangesAreLinked`; `ItemsStay`, `LinksStay` |
| `UsedOnce` | `SignInStateOnce`, `OneSuccessor`, `MailedTokenOnce`, `CodeServesOnce` |
| `LockoutHolds`; `ConnectionsFit` | `CountsEveryFailure`, `LockHolds`; `PublicReadsOnly`, `ConnectionIsConfigured` |
| `TrailIsTrue` | `SettingsTrail`, `TrailTellsPresent` |
| `ConnectionsTakeEffect`; `ApiUserStays` | `ConnectReachesAll`, `DisconnectedStaysSo`; `ScopeHasCredential`, `WritingStaysOn` |
| `AdaptersAreEntitled` | `ActsWithAuthority`, `WritesAsOrganisation` |
| `CatalogueIsWhole`; `NamesAreKept` | `OneCatalogue`, `EmptyOnlyAtExpiry`; `NamesGrowOld`, `NothingSetIsLost` |
| `WrittenAsApproved` | `ApprovedIsInPtv`, `CreatedAsProposed` |
| `ValidIsAccepted` | `RequiredAreSent`, `ValidNewIsComplete`, `AreaFits` |
| `ConversionsAgree`; `ChecksAgree` | `ReadsFit`, `HoursMeanTheSame`, `ReadsSettle`; `ReviewedIsPublished`, `ClassRulesAgree` |
| `LoadBounded` | `OneLogin`, `SendsBounded` |
| `MapsInOrder`; `SearchIsExact` | `CalledAtMostOnce`, `ResultsInOrder`; `WindowExact`, `NoPageTwice`, `SearchExact` |

Every group states the types of its variables. That of `ProposalQueue` is in a run
and proved; what `ManualPublishing` reads and holds is typed by `ReadsFit`; those of `V11Client`, `ReviewCampaigns`, `OAuthGrants` (and the modules
below it), `AdapterRegistry` (and the modules below it) and `OrganisationSearch` (with
the window and the pool) are proved; the others are documentation, and can be added
to a configuration as an INVARIANT.

### Why the bounds are enough

- *Two calls.* The hazards are pairs: one call's check and another's write. A third
  call adds no new pair of statements, and the safety properties of the queue, of
  campaigns, of sign-in, of the registry, of reads and of writes are proved for any number
  of calls, users, proposals, items, tenants and processes. All operations are among
  the two, and the initial states hold what earlier calls would have left (a queued
  proposal with sign-offs, an open session, a mailed token, a grant, a connection, a
  cached catalogue), so that longer histories are in them.
- *One proposal* for the queue: calls meet only on a row they share, or on
  memberships and settings. Campaigns have two proposals where an item has to be
  told from another (`campaigns_serial`).
- *One change* of a role or setting suffices to fall between any check and the
  statement that relies on it; so does one event of `sign_in`, one `Cut` of
  `adapter_registry`, one failure of `ptv_reads` and `ptv_writes`. In `queue` all
  members start as Publishers, the rank that may call everything; the change
  demotes, removes or re-admits one.
- *Two spellings* of an email are what the exact and the case-insensitive lookup
  tell apart. *A lock after two* wrong passwords (the code has five) is reached by
  two requests, and by one on an account that has failed before.
- *Two tenants, two users*: one tenant exists, another may be created; one user acts
  on the other.
- *Two processes* share the tables and not the memory. The times to live keep their
  order (a missing code's is the shorter), and pages of one service make a report
  take two.
- *One item of each kind*, whose lists hold an entry of the domain model and one it
  does not carry: the mapping works per field and per list, and dependent fields
  are changed together. Services come with a general description and without, and
  as a draft.
- *One edit* by others falls anywhere: before the approval, between it and the
  confirmation, and between what the confirmation reads and its update.
- *Four days* are before, within, at the end of and after a dated service hour.
- *Two requests* share a token cache in every way: waiting for the other's login,
  losing the token to the other's 401, being overtaken. Two retries (the code has
  three) leave room for a retry before and after a 401.
- *Six ids in pages of up to three, windows up to position nine* lie across no
  page edge, one and two, start past the end, and end at an edge; batches of two
  have a partial one. Three workers on up to five later pages both outnumber
  their items and are outnumbered. A page size of 0 is included because
  `SearchParams.pageSize` is any number; the MCP tools admit 1 to 1000.

`Symmetric` permutes calls and users, spellings, processes, or items, calls and
proposals, where nothing tells them apart; it is used in no run that checks
liveness. `CHECK_DEADLOCK FALSE` stands where the system stops in the end: one-shot
calls, requests and searches. Campaign calls go on for ever, and deadlock is
checked.

### Fairness

Weak fairness of a call's next statement (`WF(Step(c))`): the database and PTV
answer or fail in the end, and the event loop resumes what is answered. Nothing
is assumed of whoever *starts* calls, changes roles, edits PTV or brings the
process down. `queue_live` leaves crashes out because no code would finish the
call of a process that has died: nothing records that it had begun. In
`V11Client` every `fetch` ends (undici has timeouts of its own) and a sleeping
request wakes up; that a *login* ends is assumed for the same reason. In
`OrganisationSearch` fairness of the whole next-state relation is enough, since
its steps are finitely many. The other modules state safety only, and no fairness.

## What the runs and proofs show

### The proposal queue

*Holds, and is proved for all sets of users, proposals and calls:* at most one
resolving call ever moves a proposal, although none of them looks at the status
first: the conditional UPDATE of `transition` decides. The audit trail names
only resolutions that happened. `applied` always has its own call's answered
write, or its own reading of PTV, behind it. An approval of one's own proposal
is made only in a call during which four-eyes review was off at some moment. An
approval's reviewers had all signed off by the time they were read. A decision is
changed by nobody but its reviewer. The rows follow `ProposalLifecycle`.

*Holds with fairness and without crashes (TLC):* a write that reached PTV takes
its proposal out of the queue, and a resolution gets its audit entry.

The task lists tell at every moment what the checks say (TLC): nobody is asked to
sign off their own proposal, a sign-off given is asked for no longer, and an approval
passes four-eyes and the reviewers exactly when its caller's list says so then.

### Review campaigns

Every documented rule holds over all sequences of calls made one at a time.
When two calls cross, `RulesHold`, `SettledStays` and `ReviewerGates` fail, by a
call that read the campaign as open, the item as undecided, or the proposal as not
linked, before the other one wrote. What survives crossing calls and cut-off ones:
nobody is asked to review, or signs off, a proposal of their own; and a closed
campaign's record settles, since only calls that read it as open before it was
closed can still change an item, and they end. All but the last is proved for any
number of campaigns, items, proposals and users; that nobody reviews their own, for
any number of calls.

### Accounts and sign-in

Whatever crosses: a started sign-in and its one-time code serve one request each,
since consuming them is one DELETE that returns the row; no line of refreshes outlives
the end of its user's sessions (by a reset, or by a used token coming back) unless one
of its requests was under way just then; an account that is locked signs nobody in, by
password, by single sign-on, for an MCP connection or on the command line, but for the
requests that were under way when it was locked; and a connection without an
organisation reads published data only.

As long as requests do not cross: wrong passwords are counted and add up to the lock; a refresh token has one successor; a mailed token works
once; a code is exchanged once; and a code for an organisation is made for a member
over what is configured. Two crossing refreshes, exchanges or uses of a mailed token
both succeed (the update is not conditional, or its row count is not looked at), and
two crossing wrong passwords count as one. The properties say exactly this, the second
group with `crossed` in its premise, and are proved for any number of requests and
users.

### Tenants, connections, adapters

Whatever crosses: a write to PTV is made, and a tenant's credential used, only for
somebody who had the role at some moment of the request (for a write: after the
change was validated); a user's own account never carries a write; the
configuration never names a credential that is not there, because the credential
is stored first; connecting an account takes nothing back; a disconnected token is
used no more; connecting reaches every tenant although one fails; and a write that
PTV carried out has an entry unless the request was cut off before it.

One request after the other: each settings entry starts from what the one before
it left, and the last entry about a member is their role. Two that cross may record
the same state before.

### Reads from PTV

The rows of an API version are one download, however many searches replace them
at once: the loser's inserts meet the unique key. A search finds nothing because of
age only when the hour ends between its check and its read. A code's name is used
no longer than its time, also when processes pass it on through the table, and one
set while another read saves is not lost. A report has each service of its
organisations once, and no other, although PTV changes between its pages, since all
are cut from one download. A download that failed is forgotten. All of this is also
proved, for any number of reads and processes, any tree of organisations, any services,
page size, limit and times to live.

### Writes to PTV

For an apply that is alone (others may fail or edit elsewhere): after success, PTV
holds what was approved, cleared fields and connections included; everything else
is as it was, among it the entries of types the domain model does not carry (a general
description's classifications may come to it, see the findings); connections that stay
keep their extra info although PTV drops what a PUT does not list, because the code
sends it again; approving again after a lost answer or a failed second PUT gives what
one complete apply gives; and PTV refuses no change or new item that was found valid for a field it requires. All of this is also proved,
for any items, connections, changes and number of calls.

`CannotBeTold` names the fields that need not be as approved, because the mapping has
no way to tell PTV: emptied `urls` and `accessibility`, and emptied `emails` except an
organisation's; emptied lists that PTV requires; emptied texts when nothing is left of the whole list they are sent in
(PTV takes an empty list without a delete flag for an omitted one); a number of
signatures without the requirement to sign; and an alternative name shown in a
language without a name. Classifications are the subject of a finding below.

### Content and manual publishing

What is sent to PTV for service hours, what is compared and what the sheet prints
open on the same days at the same times, over the week's end too. A list that is
read and proposed back differs in nothing. A field entered from the sheet leaves
it, for the values that can be entered. A proposal is closed as published only after
PTV had the change: what the confirmation read means what was proposed, and what PTV
holds at the update is another thing only where others edited in between. Once PTV has
the change, the checks and the validator find in the item what they find in the
proposal, as of the same day; what they found when it was approved may have become
another thing meanwhile. Validator and checks agree about classes.

### V11 client

One login at a time, at most `attempt + 1` sends and one more after a 401, never
a second send with a token rejected before: proved for any number of requests
and retries. That every request ends is model-checked. The cache keeps these
although `invalidate` does not look at which token it drops: a 401 for an old
token can drop a newer one, which costs a login and no more.

### Searching

The answer is the page asked for, for every list, page size, page, subset of
names and of ids PTV leaves out, and for every order in which pages arrive; a
search ends. Ids that PTV leaves out of a batch are dropped, all of it too; the 404 it
may answer with then is an error to this caller. All but that it ends is
proved, for lists, pages, batches and numbers of workers of any size.

### Findings

`queue_not_allowed` is a run that ends in a counterexample: "Not being allowed to
write leaves the proposal pending for a Publisher" (`mcp/proposalQueue.ts`), but an
apply over a connection without a write API version, such as every web request,
closes the proposal as failed.

Seen while modelling, each from the code the models translate. The first group
disagrees with a statement of the repository:

- "approving waits until all have `approved`" (`mcp/proposalQueue.ts:89`): reviewers
  are read once; one who asks for changes afterwards is not waited for.
- "reject: Closes the proposal. Nothing is written."
  (`skills/ptv-mcp-workflow/SKILL.md:131`): an apply does not look at the status
  before it writes, so a rejected change can be in PTV.
- "There is one open campaign per organisation and environment"
  (`docs/review-campaigns-plan.md:64`): two started together are both open. The same
  plan says that an item is not confirmed while linked proposals are pending, and
  that a linked proposal cannot be approved before its reviewer signs off: one linked
  meanwhile stays pending on a confirmed item, and one is open to approval until its
  reviewer has been added.
- A sign-off is recorded without the status it was checked against
  (`mcp/proposalQueue.ts:505`), so it may change after the resolution, in spite of
  the comment at line 489.
- The comparison promises that what is read back equals what was written
  (`mcp/proposeChanges.ts`). It does not for phones without prefix, charge type or
  type, street addresses without the municipality PTV derives, emptied lists and
  texts, dated hours whose end equals their start, that have an end only, or are
  closed with times, and classifications given by code only. Such a field never
  leaves the sheet, so that its proposal cannot be confirmed. `Enterable` names the
  others.
- "a key present in `changes` fully replaces that field", and "the proposal the caller
  reviews matches what applying it would actually produce" (`mcp/proposeChanges.ts:99`
  and 102): a change that gives a list of classifications and removes the general
  description loses those of its entries that the description had brought
  (`writeMapping.ts:113-119`, then 124-133), unless all of them are.
  `ApprovedIsInPtv` excepts these entries (`Lost`).
- "invalidate every outstanding session" (`auth/authService.ts:355-356`, of a password
  reset): a refresh or a sign-in that crosses the reset
  stores its session after all have been revoked, and it stays live.
- The comments that a service is validated again before its export
  (`mcp/proposalKinds.ts:352`, `mcp/proposalPipeline.ts:80-86`) are not what
  `exportForManualPublish` does (`mcp/applyOrExport.ts:39-95`): it reads the service and
  takes the difference.

The rest is what the code leaves open, in signing in:

- Two wrong passwords that cross are counted as one, and the one that is written later
  may lift a lock that the other has set (`authService.ts:228-239`).

in writing:

- Two applies of one item that cross: the later PUT sends the old entries of the
  lists it touches again. A change of a channel's `languages` drops the texts of the
  languages left out, which the reviewed difference does not show.
- A general description that PTV does not show (404, `ptv/v11/adapter.ts:579-598`) counts
  as none: the PUT then sends the classifications it brings as the service's own.
- Resending a connection list turns faxes of the other connections into numbers.
- Removing a general description that brought target group KR2 passes the validation
  when the service has industrial classes of its own, and PTV refuses it. A service's
  own entry that its description brings too is dropped while other entries remain.
- An organisation that cannot be read makes a new service nationwide, which PTV
  refuses when the organisation is not.
- The validator has no rule for a summary, and main-only classes given by their uri
  pass it; `targetGroups` are required by the validator only. Invalid channel,
  connection and organisation proposals are queued, and exported, unvalidated.
- When a channel's connections cannot be read the report counts none
  (`ptv/organisationContent.ts:125-129`), where `ptv_check_quality` leaves the check out.
  Neither count is modelled.
- A confirmation reads PTV, then closes the proposal: an edit in between goes unnoticed.
- The sheet prints of a street address its Finnish street, of an hour with an end
  only that it is valid until further notice, of cleared links nothing; unknown
  formats of form files are read as no file.

and around it:

- An `auditedApply` whose success could not be recorded records a failure, which
  `AdapterRegistry` leaves out: there the request is cut off.
- A proposal whose reviewer asked for changes is on nobody's task list but the
  Approvers'.
- Nothing calls `deactivate`, nothing reads `tokenExpiresAt`, and the last
  administrator of a tenant can be removed.

## Proofs

All proofs are checked to the last leaf by TLAPS; nothing is assumed but the
named assumptions on the constants, which every run evaluates.

**ProposalQueueProofs** (from `ConstantsAssumption`). None of the properties is
inductive: `ResolvedOnce`, say, does not know that a call about to update has not
updated yet. The invariant `IInv` adds what a call under way has established:

- `CallsKnown`, `OpAtStep`: a step belongs to its operation, on a row that exists,
  and a call that has moved its row is at its audit entry or done;
- `MovedTruthful`: what a call set is what the row says, or has been published
  since. With it a second resolving call finds the row not pending, whence
  `ResolvedOnce`, and the audit entry that follows is true;
- `PtvEvidence`: who is about to set `applied` has landed a write or read PTV;
- `FourEyesPassed`, `SignOffsPassed`: what was true at the check stays true, or is
  excused, for as long as the call goes on.

Most steps only advance one call's `pc` (`GotoAdvances`, `QuietStep`); lemmas for
the others (`BeginStep`, `InsertStep`, `MoveStep`) carry the work, and `InvStep`
has one step per action. `ImplementsLifecycle` maps each change of a row to a step
of `ProposalLifecycle` (`RowStep`), and needs one more invariant, that a row not
yet resolved names no resolver (`UnresolvedInvariant`).

**V11ClientProofs.** `LoginInv` ties the login under way to the cache, the requests
that wait and the tokens in use, and gives `OneLogin`; `RejectedInv` says that a
rejected token was issued, is not being issued, and is not in the cache while its
request goes on, which gives `RetriesWithFreshToken`; `SendsInv` counts sends by
where a request is. `TypeOK` follows in a step of its own.

**ReviewCampaignsProofs** (from `ConstantsAssumption`). `IInv` has what a call's record
has established by the step it is at (`Fits`): the item it read, whose campaign does
not change, the proposal it works for, which exists, and before a sign-off that the
user is one of its reviewers. A proposal that exists keeps its proposer, and its
reviewers only grow (`Grows`). `NobodyReviewsTheirOwn` follows for any number of calls,
cut off or not. The rules of a campaign do not hold when calls cross, for which TLC has
counterexamples. Their theorems say so in their names and have the hypothesis `Alone`,
that `Calls` has one element, as in `campaigns_serial`; `OneAtATimeRulesHold` and
`OneAtATimeReviewerGates` also need `~Faults`, as a call that is cut off leaves its
updates half done. What a call has read is then still so when it writes, which is
what `AloneInv` and, without cuts, `CalmInv` say step by step.

**SignInProofs** (from the assumptions of `Accounts`, `OidcSignIn` and `OAuthGrants`).
`Typed` is the types together with the journey of a request (`Course`): which steps one
of its kind can be at, and what its record then holds. On it rest four arguments:

- `EndedStayEnded`: a live session counts from the last end of its user's sessions. A
  refreshed session counts from where the one it replaces does, so what has to be shown
  is that one that is about to store its session counts from where it found that one when
  it began (`Renews`), an end in between included, which it then was under way at.
- `WhatIsUsedOnce`: a started sign-in and the code for the web are taken by the delete
  that returns their row, before anything else is done with them (`TakenFirst`). A
  refresh token, a mailed token and an authorization code are marked by updates
  without a condition: that each serves once needs that no two requests have crossed,
  and then one is under way at a time (`Alone`) and what it has read is still so when
  it marks it (`MailUsed`, `Successors`, `Exchanges`). That what a request presents
  was sent, and sent by a request that had ended, is `Handed`, `Fresh`, `Held` and
  `Coded`.
- `WhatConnectionsMayDo`: a code, a grant or an access without an organisation reads
  published data (`Public`); a selection for an organisation was made by a member, over
  what was configured when it was checked, and without crossings still is (`Chosen`).
- `WrongPasswordsLock`: without crossings, the count on the row is the number of wrong
  passwords since the last right one modulo the threshold, or one less while a request
  is about to write it (`Counting`; `CountsOn` is the arithmetic). However requests
  cross, one that is past its look at the lock was caught by it or has found its account
  open, which no step of another changes without catching it.

**AdapterRegistryProofs** (from the assumptions of `Tenants`, `PtvConnections` and
`AdapterRegistry`).

- `Configured`: a configuration that uses the tenant's credential has one, because the
  credential is stored first.
- `AllEntitled`: `authority` only grows during a request, and each step of resolving an
  adapter adds what its check has seen.
- `Recorded`: a write that PTV carried out has its entry, or its request is about to
  write it or was cut off.
- `Spent` and `Connecting`: the token that a disconnection has read is not the live one
  once the row is revoked, and a request that connects has read defaults for the
  tenants it has been to and entries for those it has recorded.
- `TheTrailIsTrue` has `~crossed` and `cuts = 0` in its premises, as the property has.
  Its invariants say what the last entry about a tenant's settings and about each
  member tells (`SettingsTold`, `MembersTold`), the request that has made its change and
  not recorded it included.

**PtvReadsProofs** (from the assumptions of `OrganisationCatalogue`, `CodeNames` and
`PtvReads`; among them that the catalogue's time to live is not zero, the code's is an
hour). `Downloads`: every download has the root organisation, whose row is unique, so
a transaction whose inserts succeed replaces exactly the download its delete saw; with
it the rows of an API version are one download at every commit. `Named` has the types
of what is in memory, on its way to the table and in the table: each is an entry that
expires its time after PTV gave it, wherever it is copied to. `Calm`: a read that began
after the last of PTV's errors is not handed a failure left over.

`ContentStaysOnce` rests on two more. `Loaded`: a list, in whatever state its download
is, has services of its organisation only, each once, and one that is done does not
change (`DoneStays`). `Reports` says how far a report has come: its `todo` is the rest
of its `scope`, its `items` cover the organisations before (`Covers`), and `mine` is
the first pages of the list of the one it is at (`FirstPages`). A step adds a page
(`PageAdds`) or with the last page an organisation (`CoversMore`); no step of anyone
else disturbs it, because what it has read is done (`CoversStays`, `GathersStays`).
That the organisations in scope are distinct is by induction over the rounds of
`InScope`, and that a filtered list keeps its entries once over those of `Filter`.

**SearchProofs** (from `ListAssumption`, `PoolAssumption` and `SearchAssumption`).
`InWindow` says where the loop of `fetchIdWindow` is in PTV's list: the ids it has are
those from `start` on, its page and offset are at the next, and it goes on only while
the list does; the steps are arithmetic of pages (`PagesFollow`, `SliceFollows`). In
the pool the indices below `next` have been handed out, each to one worker that is
still at it, has failed at it or has stored its result. `SearchInv` adds that the ids
wanted are the list filtered by what is asked for, and that each id asked for so far
was returned or is missing, not both. That filtering twice is filtering once, that
stretches and pages join into the list, and that filtered ids are in order and
distinct, are proved by induction over the numbers up to a length. The library's
induction theorems take an operator, which the provers cannot instantiate; its
theorem that the numbers are well-founded does not, and `Induction` follows from it for
sets: the set of the numbers for which a fact holds. `RecursionExists` gets from that
the equation of a recursive function. (This is why the search filters with `Filter`, a
recursive function, instead of `SelectSeq`, of which the prover knows nothing.)

**PtvWritesProofs** (from `WritesAssumption`: an item has the fields a GET shows for its
kind, and a list or a text where it has one; edits in PTV are of those fields;
connections are well-formed; a change is of the fields the tools let through, and a
classification it takes from the general description is one of the same kind).
`StepOutcome` says of every action what it makes of one call's record, and that whoever
else is under way is no longer alone; the rest is about outcomes, with invariants about
a call as long as it is alone:

- `AllPlaced` and `AllLinked`: until its second PUT the connections are those it read,
  after it those of its plan. `ConnectionsKeepTheirDetails` follows from what a PUT makes
  of a connection, which is what is sent and nothing of what was: one sent back as it was
  read stays (`ResentIsKept`), one sent with new details is read back as those
  (`SentIsReadBack`), and a plan resends every connection it is not about (`PlannedIs`).
- `AllTold`: the public version is the latest one unless the item is `Modified`
  (`Versions`). So a call alone with an item that has no unpublished changes was
  validated against what it then read (`Informed`), a refusal it met was not for a field
  PTV requires (`Refusals`), and what was merged, found valid and
  sent has the classifications (`RequiredIsSent`). A new item that was found valid is
  complete, for each kind (`NewIsComplete`), and the area that is sent is the
  organisation's (`AreaIsGiven`). Together they give `ValidWritesAreAccepted`.

The other three properties are about every field of an item. Their proofs go in two
stages. The first is about operators only, for one kind after the other:

- `ServiceAfter`, `ChannelAfter` and `OrganizationAfter` describe what is stored after
  a PUT of `BodyOf`, list by list, from what the body has (`ServiceBodyHas` and its
  like) and what PTV makes of it. `UpdateKeepsRest` reads off that what the change is
  not about is as it was.
- `UpdateOnceMore`: a PUT of the same change, built on what was read back after the
  first, changes nothing. It is where the code's handling of the general description
  matters (`OwnOnce`: what the first left of a list is what the second sends of it), and
  that of the texts whose list has several types (`TextsAgain`).
- `UpdateThere`: what the mappers read back is what the change says, but for
  `CannotBeTold`. `NewTextsGive`, `ServiceMade`, `ChannelMade` and `OrganizationMade`
  are the same for a POST.

The second is the invariant `WroteInv`. It says of a call that is alone that the
version it was validated for is the one it read (`Found`), that after its PUT the item
is `After` that version and its change, that after its second PUT the connections are
those of the change (`Joined`), and that after a failure each is one or the other. With
it `UpdatesKeepTheRest`, `ApplyingAgainIsOnce` and `WritesAreAsApproved` are
instances of the lemmas. `AllMade` says of every new item that it is the POST of a
valid proposal.

The runs' properties that are conjunctions follow from their parts: `ResolutionsTrue`
and `ApprovalsGated` for the queue, `LoadIsBounded` for the client, `PoolMapsInOrder`
for the pool.

**Only model-checked:**

- `TasksTellWhoActs`;
- liveness (`ResolutionsSettle`, `RecordSettles`, `EveryRequestEnds`, `SearchEnds`),
  which is beyond the prover;
- the properties of `ManualPublishing` (`ConversionsAgree`, `EnteredLeavesSheet`,
  `ChecksAgree`, `ConfirmedIsInPtv`). Its operators are functions
  of finite data that the run enumerates, a case for each field of each kind of item,
  and what they say of service hours is about folds over lists of days.

## Plan

Done: the queue with its abstract specification and proofs; campaigns; the v11
client; paging composed into a search; accounts, single sign-on and MCP connections;
tenants, PTV connections and the adapter registry; the catalogue, the lists and the
code names; writes through v11; rules, checks, comparison and manual publishing; proofs
for all of these but the last.

Left: theorems about `ManualPublishing`, first `ConfirmedIsInPtv`, field by field from
`FieldDiff`, then `EnteredLeavesSheet`.

## Not modelled

- Database schema, row-level security, encryption: enforced by PostgreSQL and
  libraries. A change of the master key is an operation of the deployment.
- `ptv/v11/wire-types.ts`: generated types, a third of the implementation. What a
  write needs of them is in `PtvRecords` and `FieldTypes`.
- v12's mapping of fields, its service collections, general descriptions and ontology
  searches: they page through the functions that are modelled, and each is a function
  of one answer.
- `fetchCimdMetadata`: an HTTP request and address rules, without state.
- The patterns texts are matched with, wording, layout, the files of an export.
- Transports, routes, pages: a fresh server or handler per request. What they hand
  on (the kind of connection) is `via` in `ProposalQueue`, and claims in
  `AdapterRegistry`.
- The walk up to an organisation's root, which relies on PTV's organisations being a
  tree.
- The retry of a POST that PTV has carried out: v11 has no idempotency key and the
  code makes no promise; `ProposalQueue` models what the queue makes of it.
- A PTV list that changes while its pages are read: v11 has no snapshot, and the code
  makes no promise. What is cut from one download is (`ContentOnce`).
