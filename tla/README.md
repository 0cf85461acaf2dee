# Verification of django-saas-kit

TLA+ specifications, TLC configurations and TLAPS proofs for the parts of
django-saas-kit in which several processes act on shared rows: the Stripe
billing pipeline, the membership of tenants, the e-mail tasks that promise
to run once, the cache in front of the tenants' host names, and what surrounds the
account of a user: registration, two-factor authentication, password resets, the
profile, notifications, feature flags, rate limits and erasure. Paths below are
relative to `src/`.

## 1. The system

### 1.1 Processes and shared state

Gunicorn/ASGI processes serve HTTP requests, Celery workers run tasks from a
Redis broker, a Beat process enqueues a daily clean-up. They share one database
and one Redis cache. There is no `ATOMIC_REQUESTS`: outside an explicit
`transaction.atomic` every query is committed on its own, and other processes
may run between two of them. Tasks are acknowledged late and redelivered when a
worker is lost (`config/settings/base.py:322-323`).

### 1.2 Components

| Component | State | Operations | What makes it hard | What makes it correct |
|---|---|---|---|---|
| Webhook endpoint, `apps/billing/views.py` | `WebhookEvent` rows | `post`: verify, get_or_create, `delay` | concurrent redeliveries; dying between the insert and `delay` | an event is dispatched at most once; what is dispatched is settled |
| Event tasks, `apps/billing/tasks.py`, `services/billing/billing_service.py` | broker messages, results, `Subscription` rows | six event handlers, dunning e-mail | any order, reruns after the commit, lost workers | no task is lost or endless; dunning follows a failed payment and only that |
| Subscription access, `apps/billing/models.py` | status, grace period | `is_access_allowed` | late and repeated events | access while past due rests on the latest failed payment |
| Invitations, `services/invitations` | `TenantInvitation` rows | send, accept, revoke, list | check-then-act over several queries, expiry | nothing for who comes late; a given role uses the invitation up; a second user or a second invitation has its overlap |
| Roles, `services/rbac` | `UserTenantRole` rows | assign, revoke, has_role | permission read at the start of a request | accepting does not replace a role |
| Plan limits, `services/billing/plan_limit_service.py` | none | `check_member_limit` | checked at sending, not at joining | members within the plan |
| Idempotent tasks, `services/common/idempotency.py` | result cache | `run` | read, run and write are three steps | a cached result stops a run; repeats have a cause |
| Two-factor, `apps/authentication` | `UserTOTP` row, pre-authentication cache key | setup, enable, disable, sign in, complete | overlapping requests on one row and one code list; the password is checked twice | a backup code and a session key work once; enabled means verified; no tokens on the password alone |
| Password reset, `services/auth/password_reset_service.py` | password hash, mails, links in date | request, mail task, confirm | two confirmations of one token; a confirmation over an erased row | a token works once; an erased account stays erased |
| Registration and social sign-in, `services/users`, `services/auth/social_auth_service.py` | `User` rows | create, find or create | check-then-create without a unique address | one account per address |
| Profile, `apps/users/views.py` | `UserProfile` row, avatar files | read, patch, put, delete avatar | whole-row saves from a copy; file and row are written apart | a field keeps what was last sent; the avatar's file is there |
| Tenant resolution, `apps/tenants/middleware.py` | cache entry per host, `Domain` and `Tenant` rows | resolve, invalidate | stale positive and negative entries; check-then-create of tenants | every answer was true once; stale entries do not outlast their time to live; no tenant without its domain |
| Notifications, `services/notifications`, `apps/notifications` | `Notification` rows, channel groups, sockets | create, broadcast, connect, list, mark read | the row before the broadcast, errors swallowed; a list cut in pages while rows come | a connected client misses nothing; the pages together are complete |
| Feature flags, `services/features` | overrides per tenant, waffle | set, sync with plan, read | plan sync over manual overrides; two reads in opposite orders | answers were true at some moment; a sync leaves the plan's flags |
| Throttling, `apps/common/throttling.py` | times of requests per client and scope | ask, count | a shared list read and written in two steps; rates that change with the plan | exact windows |
| GDPR erasure, `services/users/gdpr_service.py` | rows of all the above | anonymize, hard delete | requests that had read the rows before | nothing comes back; everything listed goes |
| JWT, audit, soft delete, health, logging, settings, demo seed | see `PROJECT.json` | | one query, or library code | |

Interactions: the endpoint hands events to the tasks through the broker; the
failed-payment handler enqueues the dunning task, which reads the roles and the
subscription; `send_invitation` asks the plan limits, which read the
subscription's plan and count roles; `accept_invitation` calls the RBAC
service; registration enqueues the welcome e-mail on commit. `hazards` in
`PROJECT.json` lists what is hard to test, each at its line, with the properties
that would catch it.

## 2. The modules

| Module | Models | Used by |
|---|---|---|
| `WebhookInbox` | what the endpoint and its task promise of each event | `Billing` refines it |
| `Billing` | endpoint, broker, workers, event handlers, dunning task, subscription rows | `MCBilling`, `BillingProofs` |
| `TenantMembers` | what the invitation and role endpoints promise of a tenant, however requests overlap and die | `Membership` refines it |
| `Membership` | invitations, roles and the plan limit, query by query | `MCMembership`, `MembershipProofs` |
| `IdempotentTask` | `IdempotencyService.run` under at-least-once delivery | `MCIdempotentTask`, `IdempotentTaskProofs` |
| `Tenancy` | host resolution through the cache, tenant creation, changes in the admin | `MCTenancy`, `TenancyProofs` |
| `TwoFactor` | the `UserTOTP` row, its endpoints and the sign-in that it gates | `Site`, `TwoFactorProofs` |
| `Registration` | accounts made by registration and by providers | `Site`, `SiteProofs` |
| `PasswordReset` | reset links, confirmations, and the erasure of `User` rows | `Site`, `PasswordResetProofs` |
| `Profile` | the profile row, the avatar files, erasure | `Site`, `ProfileProofs` |
| `Notifications` | rows, broadcast, socket, paged list | `Site`, `SiteProofs` |
| `FeatureFlags` | overrides, waffle, the endpoints, plan sync | `Site`, `SiteProofs` |
| `Throttling` | the chain of throttles of a request and their histories | `Site`, `SiteProofs` |
| `Site` | those seven at work together | `MCSite`, `SiteProofs` |
| `...Proofs` | theorems and their proofs (section 5) | |

An operator commented `Mutant:` is a plausible bug in the definition below it;
it is used by no specification. `PROJECT.json` names, for each property of a
passing run, the mutant under which TLC finds it violated.

### 2.1 Billing

One `Billing` behaviour is a choice of what Stripe says (`event`, a member of
`Histories`) and of the rows administrators have created (`Accounts`), and then
any interleaving of deliveries, workers and the clock.

| Variable | In the code |
|---|---|
| `http[d]` | how far `StripeWebhookView.post` is with delivery `d` |
| `inbox` | `WebhookEvent` rows |
| `queue`, `worker`, `result` | broker, what each worker holds, result backend |
| `sub` | `Subscription` rows: Stripe id, status, grace period end |
| `applied`, `invoice` | history variables: rows changed by each task, last invoice outcome of each row |

`Receive`, `LogEvent`, `Dispatch` are the three stages of `post`, and `Abort` its
death before or between the last two. `Fetch`, `Ack`, `WorkerLost`, `Retry` are
Celery with late acknowledgement: a retry is a new message with a higher count,
published before the old one is acknowledged, so a worker lost at that moment
leaves both. A handler's transaction holds the row lock from its read to its
commit and is one action; the call of `delay` after it is another
(`EnqueueDunning`), so a failure between them is a behaviour of the model.
`HandlerRaises` may happen instead of any transaction and after the one of a
failed payment.

Abstractions. Prices, period dates, `cancel_at_period_end` and audit entries are
left out: no guard reads them. A status outside the model's choices, which
Stripe can send, acts like `unpaid`: no access. The broker is a set, so two
identical messages in it are one; that merges a redelivered message with its
equal, and never hides a lost one. A retry whose publication fails is a task
failure that `WorkerLost` and `Abort` do not cover and is left out. The dunning
task may find an owner or not, since roles are elsewhere. An invoice's line items
and customers play no part: the handlers use only the subscription id.

### 2.2 Membership

Each database query of `send_invitation`, `accept_invitation` and
`revoke_invitation` is an action, and `req[r].pc` is the next query of a request.
A request starts when `HasRolePermission` has let it in, and keeps what it has
read. Saves write the fields that `update_fields` names, whatever the row holds by
then. `Crash` kills a request between two queries, which is also what an exception
from the database or from `delay` does. `accept` compares no address, as in the
code: any authenticated user with the token may use it. `late` in `granted`
records whether the invitation was unusable when the request arrived. `LetIn` follows
`_resolve_tenant` of `apps/rbac/permissions.py`: the role is looked up in the tenant of the
`X-Tenant-ID` header if there is one, and the view acts on the host's tenant. A role change
and its permission check are two steps. Audit entries, the invitation's mail task
and tenants that are deleted are left out.

No lock and no constraint keeps these requests apart: two may pass a check together, and one may
die between the role it gave and the save. The model has all of those behaviours, and its properties
are stated of all of them. History says what happened. `beside`, in a request, a row and a grant,
names the users whose requests had passed the same check and were not through with what rests on it
when this request passed it (`InvitersOf`, `GranteesOf`); it is fixed there and not looked at again. `orphans`
holds the invitation and user of each acceptance that died between `assign_role` and its save.

`TenantMembers` is what the endpoints amount to under all interleavings: no operation is one step
there either. Its units are claims. A user makes one on an invitation that is open (pending and not expired), is
then seen to have no role (`Vet`), joins with the role the invitation names, and with that settles
the claim, which closes the invitation; a claim may be abandoned at any stage, and a join that is abandoned is on
record. Several requests may hold claims on one invitation. The mapping reads the claims off `req` (`ClaimOf`,
`Stage`) and the open invitations, with their terms, off the rows and the clock (`Open`, `TermsOf`): an invitation
that expires is closed at that moment.

### 2.3 IdempotentTask

`Get`, `ReadSubject`, `Send`, `Store` are the steps of `run` around
`send_welcome_email` or `send_email_notification`; `Raise` is the shared retry
policy. `until` in a worker is the expiry of the cache entry that was there when
the run began. `excuses[k]` counts the causes for a repetition: a run that missed the
cache while another was under way, an expiry, and a fault (a lost worker, a mail
server that took the message and broke off, a `cache.set` that raised). Eviction
from Redis before the expiry is left out.

### 2.4 Tenancy

`req[r]` is a request in `TenantMiddleware`: `Lookup` is `cache.get`, `ReadDomain` the one
query for a domain with its tenant, `Store` the `cache.set` that follows whatever has
happened since, and a view then runs with the tenant it was given. `CheckName`,
`CheckDomain` and `Insert` are the two queries and the transaction of `create_tenant`; the
unique constraints are met inside `Insert`, which then leaves no row. The administrators
switch a tenant off or on, move or delete a domain, and delete a tenant with its domains.
`truths[h]` collects the answers that have been right for a host, and `bare` the tenants whose
domain an administrator took away. Ids of deleted tenants are not used again. Times to
live are abstracted to expiry at any moment, so how long an entry stays is not measured;
exempt paths touch none of this and are left out.

### 2.5 Site, and how its components are put together

The seven modules that follow share no variable. Each has its own view of the `User` row
(present, inactive, gone) and takes erasure, or a changed password, as an action of its own,
at any moment; so a component may meet more than the real site would show it, never less.
In `Site` all of them act, in any order. Since they share nothing, what holds of one of them holds whatever the
others do, and `MCSite` lets one component act in a behaviour (`acting`), from each of its
initial states, with the others at rest. The components draw their requests, secrets and names from the
same few model values, so that one symmetry set serves them all.

Each module models one user's, or one tenant's, data: no code in them relates the rows of two
users, except where accounts are found by address or name (`Registration`, `PasswordReset`), and
there are two users there. A thread serves one request after another.

### 2.6 TwoFactor

A request reads `UserTOTP` once and works on that copy (`copy`), as the instance in the view
does. `SetupRead`/`SetupWrite`, `EnableRead`/`EnableWrite`, `DisableRead`/`DisableUse`/
`DisableDelete`, `LoginBegin`/`LoginAgain`/`LoginRead` and `CompleteBegin`/`CompleteRead`/
`CompleteUse`/`CompleteGrant` are the endpoints cut at their reads and writes; `UseCode` is
`use_backup_code`. `ThrottledTokenObtainPairView` lets simplejwt check the password and make the
pair, checks the password a second time to learn the user, and only then looks at the second
factor; when the second check raises, the pair made first is the answer. A code is right for
the secret it belongs to; clock drift and the TOTP window are left out, so a TOTP code may be used twice, as
in the code. `held`, `shared`, `lost` and `crossed` record the overlaps the properties speak of, and `overrun` the secrets
that were in use when a setup, which had read the row before that, replaced them.
Refresh tokens of simplejwt 5.5.1 and later are refused for inactive users, which the model takes
for `CompleteGrant`.

### 2.7 Registration

`CheckName`, `CheckEmail`, `FullClean`, `RegisterSave` and `EnqueueWelcome` are
`UserService.create_user`, one action for each query, the insert with its unique constraint, and
the callback of `on_commit`. A name taken between `CheckName` and `FullClean` is met by
`full_clean`, whose error no view handles; the request ends either way. `SocialFind`, `PickName`
and `SocialSave` are `_get_or_create_user`; `Fetched` is what the two providers' functions make of
an answer. The answer's `created` is always false, because `_pre_existing` is set by nothing; no
state depends on it.

### 2.8 PasswordReset

A token is a record of what it is signed over: user, password hash and address (`TokenOf`), so
`check_token` is an equality with the row's. `last_login` and the key's rotation can only end a token
sooner and are left out. `Holders` is the query by address: with two of them `get` raises, no mail
goes out, although the docstring says the call always returns silently; the model has no answer
to tell the difference by. `SendResetMail` may leave its task enqueued, for retries and lost workers,
and `ResetMailFails` is the last retry. `ConfirmRead` reads and checks, `ConfirmSave` saves
`update_fields=["password"]` on whatever the row holds by then. `CommandRead`, `Anonymize` and
`HardDelete` are the command `delete_user_data`, whose copy of the user waits for the operator's answer.

### 2.9 Profile

`PatchRead`, `PatchStore` and `PatchSave` are the serializer's `save`: the row is read, the upload stored
by `ImageField.pre_save`, and every field written. PUT is `partial=False`, but no field is required, so
it does what PATCH does. `DeleteRead`, `DeleteFile` and `DeleteSave` remove the avatar. Replaced and
orphaned files stay in the storage; nothing in the code promises otherwise.

### 2.10 Notifications

`CreateStamp`, `CreateCommit`, `CreateSend` separate `created_at`, the commit and `group_send`, which may
fail unnoticed. `ConnectJoin`/`ConnectAccept` is `connect`, and `list` a client that, once connected,
follows the pages to their end: `ListCount` and `ListSlice` are the paginator's two queries. A page holds one
notification, the smallest that can be cut wrongly. Dropped pushes (a full channel, a dead process) are `lost`.

### 2.11 FeatureFlags

`ListWaffle`/`ListOverrides` is `for_tenant` and `DetailOverride`/`DetailWaffle` is `is_enabled`, in the
opposite orders that the code has. An entry of waffle is on, off or missing, and administrators make, switch
and delete it (`SetWaffle`); one entry stands for the Flag, for everyone or not. waffle answers False, not None, for a
name that it does not have, so `AskWaffle` finds "off" there and a reader comes to the default only when waffle itself
fails, which the model lets answer anything. `Resolved` is the order that `is_enabled` spells out and the documents
state, in which the default does answer for a missing entry; `was` collects its values while a reader is at work,
and `touched` what stands between an answer and them: a write between the two queries that can mislead it, a
failed query, a missing entry. `SyncRead`/`SyncWrite`
is `sync_plan_flags`, one row after another; it has no caller in the repository, so the model calls it at
any time. A plan without an entry in `PLAN_FEATURE_FLAGS` leaves the flags of the plan before it.

### 2.12 Throttling

A request has a list of throttles to ask (`Checks`); `Ask` reads and prunes one's history and `Count`
writes it back, its own time in front. `Within` keeps the first of the times, as many as are young enough:
a list is always newest first, since a request puts its time before times that it read no later, so
popping the old ones off the end leaves just these. All are asked even when one has refused. The plan throttle's rate is that of the moment
(`RateOf`). No view of the repository uses `TenantPlanThrottle`; the model has a view that does. Anonymous
requests pass it. The token view's own three throttles and the scope of password resets are like those
of the views in `Loads`. Eviction from the cache is left out.

## 3. The runs

Run `site` takes about three minutes with two workers, `overlap` about two, the others little more than one at most.

| Run | Instance | Properties |
|---|---|---|
| `pipeline` | 2 events, 2 deliveries, 2 workers, 1 row, 1 retry, 1 lost worker | `TypeOK`, `TaskNotLost`, `DunningFollows`, `DunningBacked`, `TasksSettle`, `InboxSpec` |
| `rows` | 3 events, 3 deliveries, 1 worker, 2 rows, 2 days, 9 event contents in every combination | `GraceJustified` |
| `overlap` | 2 requests, 1 invitation, 3 users, 1 crash, 2 hours, an invitation that lives for the hour it is sent in | `TypeOK`, `AcceptedBacked`, `LateGetsNothing`, `GrantsSpent`, `UsersExplained`, `ClosedStaysClosed`, `MembersSpec` |
| `races` | 2 requests, 2 invitations, 2 users, 2 hours, the same expiry | `PendingExplained` |
| `tasks` | 2 calls with one key, 2 workers, 1 retry, 1 fault, time to live 1 of 3 ticks | `TypeOK`, `CachedRunsAreQuiet`, `ExtraSendsExplained`, `SentIsTrue`, `CallsSettle` |
| `cache` | 2 requests, 2 calls of `create_tenant`, 2 hosts, 2 tenants, 2 changes by administrators | `TypeOK`, `ServedWasTrue`, `Whole`, `CacheCatchesUp` |
| `site` | see below | `SiteTypeOK`, `CodesOnce`, `SecretVerified`, `NotOnPasswordAlone`, `KeysOnce`, `FactorKept`, `OneAccountPerAddress`, `TokenOnce`, `ErasedStaysErased`, `NoGap`, `ListMissesNothing`, `AnswersWereTrue`, `SyncedAgrees`, `FieldsKept`, `AvatarHasFile`, `WindowIsExact` |
| `defaults` | the component `FeatureFlags` of `site` | `DefaultsAnswer`, violated: section 4 |
| `lost`, `idempotent`, `limit`, `once` | smaller instances of the above | one each, violated: section 4 |

Why the bounds are enough. In `pipeline` two deliveries of one event are the
smallest race on the inbox row, two workers are the smallest overlap of a
redelivered message with its copy, one lost worker and one retry give both in one
behaviour, and the second event re-points, pays or never touches the row in
question. In `rows` the handlers are one-step transactions, so one worker runs them
in every order; three events are a failure, its repair and a third that could
revive it, and one day is the whole grace period. `MaxTime` and `MaxLost` bound the
clock and the faults; retries are bounded by the code. In `overlap` one invitation
is all that two requests can fight over, three users are two who accept it and one who sends or revokes, the crash
leaves a join without its save, and the second hour makes the invitation expire while it is pending or being
accepted; in `races` two invitations can be sent to one address, the first of them expired. In `tasks` the entry can be written, read
and expire within the three ticks, and a double enqueue needs two calls. In `cache` two
requests can overwrite each other's entry, two changes can move a domain away and make its
tenant active between two reads, and two calls of `create_tenant` can race for a name and
for a host.

In `site` every component has two request threads, the smallest overlap, each serving one request
after another without end. Besides: `TwoFactor` one row id, two secrets, two backup codes, one session key
and one change of password (a second setup meets an enabled row, two requests hold one key, one code is
used from two copies); `Registration` two accounts, two addresses, two names with one suffix;
`PasswordReset` two users who may share an address, two tokens at once (`MaxMails`), two new passwords
(the second is what a token used twice would set), one command; `Notifications` two notifications and
two pages; `FeatureFlags` two flags, one on by default and one unknown to the defaults, two plans of which one has
flags of its own that differ, a reader and a sync with overrides set by hand in between; `Profile` two texts and two uploads;
`Throttling` three ticks, so that a time can be just inside and just outside a window, rates of
one or two requests in one or two ticks, and a plan whose duration differs.

Deadlock checking is on in `cache`, where requests never stop coming. It is off elsewhere because the instances are finite: deliveries,
invitations, calls, losses, accounts, notifications and the clock are used up, and the system rests. In
`Membership` the last administrator may also revoke his own role, after which nobody may
do anything.

Symmetry is used only in runs without liveness: over events and deliveries in
`rows` (every history is in the set of initial states), and over the users other than the
owner, the invitations and the requests in `Membership` (`MembersSpec` has no fairness: every step of
a behaviour is checked by itself). In `site` the two requests, the two
values of each kind and the two addresses of `PasswordReset` are interchangeable; `FactorKept` is an action
property, for which symmetry is sound as it is for invariants.

Fairness. `FairSpec` of `Billing` and of `IdempotentTask` adds weak fairness of each
worker's next step: Celery keeps its processes running, replaces a lost one, and
a task body always goes on to return or to raise. It says nothing of HTTP
requests, time or losses, and does not choose between success and failure: a mail
server that always fails is allowed, and `max_retries` is what ends it. `FairSpec` of `Tenancy`
assumes that a request in progress goes on and that an entry whose time to live has passed is
gone, which is what `cache.set` with a timeout gives.

What the runs show:

- `InboxSpec`: the pipeline implements `WebhookInbox`, in which the unique insert lets at most one
  delivery enqueue the task (`DispatchedOnce`, which section 5 also proves by itself), a dispatched event
  is settled in the end and an accepted one may stay undispatched for ever.
- `TaskNotLost`, `TasksSettle`: until its result is stored a task is with the broker or a
  worker, and it is not handed out for ever.
- `DunningFollows`, `DunningBacked`: a committed payment failure leads to a dunning
  task and nothing else does. TLC found the exception the property states:
  when the first run dies before `delay` and `customer.subscription.created` re-points
  the row to a new subscription before the rerun, the rerun finds no row, reports
  success, and no e-mail is sent for the failure.
- `GraceJustified`: whatever the order of events, access while past due needs a failed payment
  as the row's last invoice outcome, less than a grace period ago.
- `GrantsSpent`: whoever was given a role has used the invitation up, or his request is about to, or it died before
  it could; so a member with a pending invitation is always the trace of such a death.
- `UsersExplained`, `PendingExplained`: two users share an invitation, and two invitations wait for one address, only
  when the requests of both were past the check together (or, for users, when one died before its save). Expiry, a
  revocation, a death elsewhere or a save of an old status are no way to it. That they do happen is section 4.
- `MembersSpec`: no interleaving or death takes `Membership` out of what `TenantMembers` allows: nobody joins
  without having found the invitation open and having been seen to have no role, the role is the invitation's, what
  closed stays closed, and an unsettled join is on record.
- `AcceptedBacked`, `LateGetsNothing`, `ClosedStaysClosed`: "accepted" names a user to whom the role was given, nobody
  who comes late gets in, and no save of an old copy makes an invitation pending again.
- `CachedRunsAreQuiet`, `ExtraSendsExplained`, `SentIsTrue`, `CallsSettle`: the cache stops
  runs that begin after the result is stored, every repetition has a cause, and no
  task reports an e-mail that was not sent.
- `ServedWasTrue`, `Whole`, `CacheCatchesUp`: a view is given a tenant that was the host's and
  active at one moment, though perhaps no longer; clashing calls of `create_tenant` leave no
  tenant without its domain; and after the last change the cache comes to agree with the rows
  for good, even when an old read is stored late.
- `CodesOnce`, `KeysOnce`, `TokenOnce`: backup codes, session keys and reset tokens work once, except when
  two requests had both read before either wrote; nothing locks the row or the key, and the model
  has those behaviours.
- `SecretVerified`, `FactorKept`: a secret is in use only when a code of it was shown. It leaves use with the account,
  by the write of a setup that had read the row before it was on, or by the delete of a disable that holds a code of
  that very secret or a backup code of that row. TLC found the exception the property states: after such a setup
  has replaced a secret in use, and an enable has put the new one in use, a disable that had shown a code of the old
  one deletes the new.
- `NotOnPasswordAlone`: no tokens on the password alone while the factor is on throughout the sign-in. TLC
  found the exception it states: when the password is replaced between the two checks, the second
  raises and the pair made by the first is given out.
- `OneAccountPerAddress`: two accounts share an address only when their creations overlapped.
- `ErasedStaysErased`: no confirmation that had read the row before revives an erased account; it may store a
  password on it, which an inactive account cannot use.
- `NoGap`, `ListMissesNothing`: connecting before listing loses no notification whose push did not fail; the
  pages are complete unless a row came between the count and the last page, or an unread list was
  shortened by marking.
- `AnswersWereTrue`, `SyncedAgrees`: both endpoints answer with a state that the flag had, by the documented order,
  during the request. The exceptions: a query failed; between the two queries waffle changed and an override was deleted
  (for the list) or written (for a single flag); or the flag is on by default and has no entry in waffle, where both
  endpoints answer off, which is run `defaults`. An undisturbed sync leaves exactly the plan's flags.
- `FieldsKept`, `AvatarHasFile`: a profile field changes only when it is sent, and the avatar's file is there,
  unless requests overlapped or died between the file and the row.
- `WindowIsExact`: a throttle refuses exactly when its number is reached within the duration, unless requests
  of one key overlapped or the duration grew.

## 4. Where code and documents disagree

| Run | Code | Says |
|---|---|---|
| `lost` | the inbox row is committed before `delay` (`apps/billing/views.py:76-84`): after a failure in between, redeliveries are duplicates and the event is never processed | "deduplicates events, and dispatches processing", `apps/billing/views.py:37` |
| `idempotent` | a rerun after the commit moves the grace period on, or makes past due what was paid meanwhile (`services/billing/billing_service.py:176-182`) | "Stripe webhook processing (idempotent, Celery-backed)", `README.md:130` |
| `limit` | `assign_role` and `accept_invitation` do not check the limit | "Call `check_member_limit(tenant)` before adding a new member", `services/billing/plan_limit_service.py:22` |
| `defaults` | waffle answers False for a missing name, so the default is never reached while waffle works (`services/features/feature_service.py:47`); in `base.py` all defaults are False, so it shows when one is set to True | "used when no waffle entry or tenant override exists", `config/settings/base.py:218` |
| `once` | two overlapping runs both miss the cache (`services/common/idempotency.py:46-51`) | "at most once per idempotency_key within ttl_seconds", `services/common/idempotency.py:40` |

Each row is a run. Five more were met, for which the model has the behaviour but no run of its own: one step shows it, or
a passing property already says how far the promise holds.

- Two users whose requests both find an invitation pending both get its role
  (`services/invitations/invitation_service.py:92-109`), against "Token not found or already used/revoked" at line 78:
  the exception of `UsersExplained`.
- Two requests that both find no pending invitation create two (lines 52-66), against "Active invitation already exists
  for this email" at line 26: the exception of `PendingExplained`.
- `assign_role` replaces a role given since the member check (lines 100-105), against "User already has a role in this
  tenant" at line 80: `Join` of `TenantMembers`, which has no guard on the role, unlike `Vet` before it.
- The disable of two-factor authentication checks the code against the copy that it read and deletes the row by its key
  (`apps/authentication/two_factor_views.py:200-214`), against "Requires a current TOTP code (or a backup code) to
  confirm" at line 167: the exception of `FactorKept`.
- `anonymize` leaves the `UserProfile` row with its texts and avatar (`services/users/gdpr_service.py:67-88`), against
  "What gets erased: username · email · name · password · profile · ..." in `README.md:478`: `AnonymizePerson` of `Profile`.

## 5. The proofs

### 5.1 Billing

`BillingProofs` proves, for every set of events, deliveries, workers and customers,
every history, every number of retries and losses and every length of the clock:

| Theorem | Statement |
|---|---|
| `IndInvHolds` | `Spec => []IndInv` |
| `TypeCorrect` | `Spec => []TypeOK` |
| `AtMostOneDispatch` | `Spec => []DispatchedOnce` |
| `TasksAreNotLost` | `Spec => []TaskNotLost` |
| `DunningIsBacked` | `Spec => []DunningBacked` |
| `DunningDoesFollow` | `Spec => []DunningFollows` |
| `GraceIsJustified` | `Spec => []GraceJustified` |
| `ImplementsInbox` | `Spec => Inbox!Spec` |

The assumptions are those of `BillingAssumption`: numbers are naturals, the
histories and accounts have their types, accounts start without a grace period,
and the "no such" values are not among the values.

`DispatchedOnce` is not inductive: a state with one delivery past its insert and
another queued for the same event satisfies it and steps out of it. Neither is
`TypeOK`, since the result that `Finish` stores is indexed by the message's delivery,
which must be a real one. `IndInv` adds two parts: `MessagesBacked`, every message in the
broker or with a worker comes from a delivery that called `delay`, so its event is a
real one; and `ClaimedOnce`: a delivery that inserted its
row has its event in the inbox, and no two deliveries of an event inserted. The proof
has a lemma for each group of actions (endpoint, fetch and
acknowledge, handlers, dunning) and each conjunct they can disturb, `IndInvStep`
combines them, and the theorems follow with PTL.

The other theorems each add an invariant to `IndInv`:

- `CarryInv`, for `TaskNotLost`. A worker that acknowledges drops a message, and between its
  last step and the acknowledgement that message is held twice or answered. `NextAttempt`
  says which: a result is stored, or the same task is carried with more retries. The lemmas
  `...Keeps` show of every step of a worker that it leaves such a successor (`Succeeded`)
  before it comes to acknowledge. Since the retries of the messages of one task only grow from
  message to successor, dropping one never drops the last.
- `DunningInv`, for both dunning properties. Backwards: whatever is dunned, be it a message, a
  worker or a result, goes back to a failed payment that has committed (`DunningIsOwed`).
  Forwards: a row that a failed payment changed is still attached to that subscription
  (`StillAttached`), so a rerun finds it again; and while no dunning task is enqueued the event's
  own task is still to be run to its end (`DunningComes`). The exception for a created event that
  moves the row (`Moved`) is in both, and is where the proof needs it: it is the only handler
  that attaches a row to another id.
- `GraceOfFailure`, for `GraceJustified`: a row's grace period, if it has one, is a grace period
  after its last invoice, which failed. Every handler that records a success, a new subscription
  or an end clears the period in the same transaction.
- `AnsweredQueued`, for the refinement: only a delivery that was dispatched has a result.
  `LogEvent` is then `Accept`, `Dispatch` is `Dispatch` (its number rises from 0 to 1, because of
  `DispatchedOnce` and the cardinality of a singleton), the step that stores the first result of
  an event's task is `Settle`, and everything else is a stutter. This is the safety part of
  `InboxSpec`; its fairness stays with TLC.

### 5.2 TwoFactor

`TwoFactorProofs` proves, for every set of requests, secrets, rows, codes and keys and
any number of password changes:

| Theorem | Statement |
|---|---|
| `TwoFactorInvHolds` | `TwoFactorSpec => []TwoFactorInv` |
| `BackupCodesAreSingleUse` | `TwoFactorSpec => []CodesOnce` |
| `SecretIsVerified` | `TwoFactorSpec => []SecretVerified` |
| `PasswordIsNotEnough` | `TwoFactorSpec => []NotOnPasswordAlone` |
| `SessionKeysAreSingleUse` | `TwoFactorSpec => []KeysOnce` |
| `FactorIsKept` | `TwoFactorSpec => FactorKept` |
| `TwoFactorIsTyped` | `TwoFactorSpec => []TwoFactorTypeOK` |

None of the properties is inductive: each speaks of the row or the history, and what
breaks it is a request that acts on a copy. `TwoFactorInv` adds `Sound`, what a request's record
says of the row it has read, whatever others have written since (held only while two-factor
is on; a setup that is not held; an enable whose copy still has the row's secret has seen a
code of it; a code that is on its copy's list; a deletion whose code is one of its copy's secret or row, the copy having the row's secret unless that was overrun);
`RowSound`, the row's codes are its own and, unless a list was saved over a newer one,
unspent; and `KeySound`, a key that has given tokens is gone, and unless it was shared has no
holder. `SoundKept` is the interference lemma: a sound record stays sound when others
write, since secrets and row ids are new when they are generated and uses only grow. Each
action then needs its own record and the row. For `FactorIsKept`, `WhoSwitchesOff` leaves an erasure, a setup and a
disable as the only steps that end the use of a secret, and `DeleterHoldsCode` gets from `Sound` what the code of the last is of.

### 5.3 PasswordReset and the erasure of accounts

`PasswordResetProofs` proves, for every set of users, addresses, requests and commands and
both bounds:

| Theorem | Statement |
|---|---|
| `ResetInvHolds` | `PasswordResetSpec => []ResetInv` |
| `TokenIsSingleUse` | `PasswordResetSpec => []TokenOnce` |
| `ErasureIsFinal` | `PasswordResetSpec => []ErasedStaysErased` |
| `ResetIsTyped` | `PasswordResetSpec => []PasswordResetTypeOK` |

`TokenOnce` needs two parts more: `UsedStale`, a used token's hash is below that of its row,
as every save raises it; and `HeldFresh`, a confirmation's copy has the hash of its token and
the row's is no smaller. A second use of a token thus finds a row that differs from the copy,
which is what `crossed` records.

### 5.4 Profile

`ProfileProofs` proves `ProfileSpec => []ProfileInv` (`ProfileInvHolds`), `[]ProfileTypeOK` (`ProfileIsTyped`), `[]FieldsKept`
(`FieldsAreKept`) and `[]AvatarHasFile` (`AvatarIsStored`), for every set of requests, texts
and files. `FieldsKept` is inductive with the types; `AvatarHasFile` is not, since a save may
name an upload that a deletion has taken away. `AvatarsStored` (rows and copies name only
files that were stored) and `PendingUnknown` (an upload not yet saved is in the storage,
and nobody else knows of it) exclude that.

### 5.5 Membership

`MembershipProofs` is about every behaviour of `Membership`, with requests that overlap, die and
arrive late, and for any number of users, tenants, addresses, invitations and requests:

| Theorem | Statement |
|---|---|
| `TypeCorrect` | `Spec => []TypeOK` |
| `AcceptedIsBacked` | `Spec => []AcceptedBacked` |
| `LateIsRefused` | `Spec => []LateGetsNothing` |
| `ClosedIsFinal` | `Spec => ClosedStaysClosed` |
| `PendingAreExplained` | `Spec => []PendingExplained` |
| `GrantsAreSpent` | `Spec => []GrantsSpent` |
| `UsersAreExplained` | `Spec => []UsersExplained` |
| `ImplementsMembers` | `Spec => MembersSpec` |

A save writes on whatever the row holds by then, so the properties rest on what a request knows
and nobody can take back. `Sound` says that: its invitation was created; if it came late, the
invitation is still unusable when it reads it; if it is about to save the acceptance, it has been
granted the role. `Advances` bounds what a step may do to a row (create it, or close it and keep its
terms), and `SoundKept` shows that no such step of others makes a sound request
unsound. `ClosedIsFinal` is `Advances` itself.

`Steps` reduces every step of a request to those that write (`Created`, `Closes`, `Assigned`, `RoleSet`), those that pass a
check (`Passes`, which says what the check found) and the rest, so that each invariant is shown against a handful of cases:

- `SendInv`, for the pending invitations. Two requests past the check for one address know of each other, since the later
  one's `beside` was read while the earlier was there; and a request past the check and a pending row of
  its address know of each other, since whichever came second saw the other (`SendsKnown`). The row that is created
  takes its sender's `beside` along, so two pending rows inherit it.
- `GrantInv`, for the users. A grant whose invitation is not closed belongs to a request at its save, or to one that
  died there (`GrantsSpent`). So a request that finds the invitation usable after that meets the first one still at work,
  and its `beside` names it (`AcceptsKnown`). `UsersExplained` is what is left of that when both are through.
- The refinement needs `IndInv` only. `StepRefines` maps `SendCreate` to `Invite`, the passed checks to `Claim` and `Vet`, `AcceptAssign` to `Join`, `AcceptSave` to `Settle`, a refusal
  or a death to `Abandon`, `WriteRole` to `ChangeRole`, and the other two saves and the clock to `Close`.

### 5.6 IdempotentTask

| Theorem | Statement |
|---|---|
| `TypeCorrect` | `Spec => []TypeOK` |
| `CachedIsQuiet` | `Spec => []CachedRunsAreQuiet` |
| `SentWasSent` | `Spec => []SentIsTrue` |
| `ExtraSendsHaveCause` | `Spec => []ExtraSendsExplained` |

for any number of calls, keys, workers, retries and faults and any time to live. The first three
follow from `IndInv`: a run that has missed the cache began after the entry it might have seen had
expired, and a cached or held answer "sent" has an e-mail behind it. For the last one, counting what
was sent is not inductive: two runs that have missed the cache will both send. `Budget` counts the
runs that may still send (`MaySend`) with what was sent: their sum never exceeds one and the causes,
and when no run is under way and nothing is cached, the next run has its cause already. Each
step moves a run from one side of the sum to the other, or brings its cause with it.

### 5.7 Tenancy

`TenancyProofs` proves `Spec => []TypeOK` (`TypeCorrect`), `[]ServedWasTrue` (`ServedIsTrue`) and
`[]Whole` (`RowsStayWhole`), for any hosts, tenants, requests, calls and changes. `RowsNoted` (the
answer the rows give is in `truths`), `CacheSound` (so is every entry) and `RequestsSound` (so is what a
request holds) carry an answer from the query through the cache to the view; since `truths` only
grows, a late `cache.set` cannot break them. `Whole` is inductive with `CreatorsSound`: the
transaction of `create_tenant` makes both rows or neither, and the deletion of a tenant cascades.

### 5.8 Registration, feature flags, notifications, throttles, and the site

`SiteProofs` proves of each of these components, for every value of its constants:

| Theorem | Statement |
|---|---|
| `AccountsAreTyped`, `AccountsAreApart` | `RegistrationSpec => []RegistrationTypeOK`, `[]OneAccountPerAddress` |
| `FlagsAreTyped`, `AnswersAreTrue`, `SyncAgrees` | `FeatureFlagsSpec => []FeatureFlagsTypeOK`, `[]AnswersWereTrue`, `[]SyncedAgrees` |
| `NotificationsAreTyped`, `NothingIsMissed`, `WalkIsComplete` | `NotificationsSpec => []NotificationsTypeOK`, `[]NoGap`, `[]ListMissesNothing` |
| `ThrottlingIsTyped`, `ThrottleIsExact` | `ThrottlingSpec => []ThrottlingTypeOK`, `[]WindowIsExact` |

- `RegistrationInv`: accounts are numbered without a gap (`Numbered`), and the address of a request past
  its check is not that of an account that was there at the check (`AddressChecked`). The number at
  which a row is inserted is thus greater than `since`, and what is not greater differs in its address.
- `FlagsInv`: `ReaderSound` follows a request between its two reads. The state of the moment is in `was`; what waffle
  answered is still what lies below the override unless waffle was touched or had no entry, and the missing override that a single flag
  goes past is still missing unless the override was touched. `OverrideSeen` and `WaffleSeen` show that no write takes
  that away from a reader. `SyncsSound`: a sync
  that is alone works for the plan of the moment, and the flags it has written agree with it.
- `NotesInv`: `WalkSound` is what pagination rests on. Until the pages have shifted, a notification that is
  still to be found has at least as many newer ones as pages were read, so it lies on a page
  to come; new rows only push it further back. On the last page by the count nothing lies beyond. The
  proof counts the newer ones with the finite-set lemmas of the library. `NoGap` is inductive with the facts
  that a note is committed by the one creator that holds it (`CommitsOnce`) and that a client that lists is in
  its group (`Connected`).
- `ThInv`: for a key that was not given up, the cached list holds the latest of the times that were let
  through, newest first, and what it no longer holds is too old for the duration last in use (`Covers`);
  the entry lives until the last of them is too old; and a request that is to write back is the only one
  that holds the key, with such a list of its own (`HeldSound`). `PrunedCovers` is the lemma
  about popping: it keeps `Covers` for a duration that has not grown, and the length that is left is the number of
  requests within the window, which is what `Ask` compares with the rate. `ThBounded` adds that all times are
  within the bound of the clock, which only the types need.

Each of these invariants was checked by TLC on the instance of `site` before it was proved.

Of the site as a whole, with all seven components acting in any order:

| Theorem | Statement |
|---|---|
| `SiteIsTyped` | `SiteSpec => []SiteTypeOK` |
| `SiteKeepsPromises` | `SiteSpec =>` the fifteen other properties of run `site` |

These add nothing to the theorems about the components but that they may be used together: a step of the
site is a step of one component and leaves the variables of the others alone (`SiteSteps`), by the shape of
`Site`. It is why the run may let one component act at a time.

### 5.9 Assumptions, and what is not proved

The assumptions on constants are the `ASSUME` of each module: bounds are naturals, tables have their
types, there is a plan, and the "no such" values are not among the values. Two say more.
`TenancyAssumption`: a domain there is at the start belongs to a tenant there is, the foreign key
`Domain.tenant`. `BillingAssumption`: rows start without a grace period, the field's default.

Every invariant and action property of the passing runs is stated by a theorem. Two refinements are: that of
`TenantMembers` in full, that of `WebhookInbox` without its fairness.

Only model-checked: liveness (`TasksSettle`, `CallsSettle`, `CacheCatchesUp`, the fairness of `InboxSpec`), since the
provers handle neither `ENABLED` nor fairness; and the violations of section 4, which need one instance each.

## 6. Not modelled

`PROJECT.json` gives the reason for each component. In short: JWT issue, rotation and
blacklisting are simplejwt's, and the tokens themselves are not followed; the audit log is
append-only and its failures are swallowed; soft delete is single updates on a model nothing
uses; health, logging, error envelope, settings and the demo seed are configuration and I/O; the
invitation's mail task keeps no state. The deletion of roles by an erasure is not composed with
`Membership`. Mutual waiting does not occur: the code takes one row lock at a time.

## 7. Plan

Done, in this order: `WebhookInbox`, `Billing` with `pipeline`, `rows` and the first proofs,
`Membership`, `IdempotentTask`, `Tenancy`; then `TwoFactor`, `Registration`, `PasswordReset`,
`Notifications`, `FeatureFlags`, `Profile`, `Throttling` and `MCSite`; then the proofs about
`TwoFactor`, `PasswordReset` and `Profile`; then those about the rest of `Billing`, with the refinement
of `WebhookInbox`, and about `Membership`, `IdempotentTask`, `Tenancy` and the rest of the site; then
`Site` as one specification, `Membership` and `TenantMembers` stated of all interleavings and deaths, and the
default states of feature flags.

Worth adding: an abstract single-use credential, shared by backup codes, session keys and reset
tokens; the deletion of roles by an erasure, composed with `Membership`.
