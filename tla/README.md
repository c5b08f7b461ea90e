# paraphe: a verification project

paraphe runs an endorsement drive: volunteers of several campaigns share a list
of mayors, reserve them in batches, call them, and record what each one said.
It has three programs. The API (`api/`, Go, one process per pod, any number of
pods) stands in front of one PostgreSQL: every request is one transaction at
READ COMMITTED, and everything that can go wrong between two people happens in
the statements of those transactions. The web interface (`web/`, TypeScript and
React) is the screen of that API, and without an API a version of its own whose
register is the browser's IndexedDB. The tools (`outils/`, with the shared core
`noyau/`) cross the published endorsements with the mayors in office and write
the lists and the messages. These modules model the three.

Paths below are relative to `src/`.

## 1. Inventory

| Component | Code | State it keeps | Operations |
|---|---|---|---|
| **Cards** | `api/routes_mayors.go`, `api/multiorg.go` (schema) | `notes` (the history), `assignments` (its head, and the reservation) | record a status, correct a note, remove a note, draw a batch; list, card, export, counters (reads) |
| **Accounts** | `api/routes_team.go`, `api/bootstrap.go`, `api/routes_instance.go` | `accounts.role`, `.team_id`, `.active`; `teams` | open an account, close or reopen it (and give its cards back), change a role, grant coordination from the instance, seed the coordination account at start |
| **Scope** | `api/scope.go`, `api/auth.go` | the connection and the transaction of a request | open, read the account (`signedIn`), commit before answering, deferred rollback; `renew`, `release`, `reacquire` around slow work |
| **Sessions** | `api/session.go`, `api/routes_session.go`, `api/password.go` | `password_hash`, `password_changed_at`; a signed cookie on the client | sign in (and rehash), sign out, change one's password, reset a member's, verify a cookie |
| **Links** | `api/link.go` | `login_tokens`: at most one live per address and purpose | request a link, redeem it, mint an invitation, spend alone when the commit failed |
| **Requests** | `api/routes_team_requests.go`, `api/routes_instance.go` | `team_requests`, `hosting_requests`, `orgs` | file a request, decide it (team, account and invitation at once; or a whole campaign) |
| **Startup** | `api/main.go`, `api/import.go`, `api/bootstrap.go`, `api/db.go` | `mayors`, `meta`, the schema, the advisory locks | migrate, import the list once, remove the mayors that left it, seed accounts, draw the session secret |
| **Limiter** | `api/limiter.go`, `api/limiter_valkey.go` | windows of attempts in memory or in Valkey | count, refuse, refund, sweep; fall back to memory |
| **Campaign settings** | `api/routes_campaign.go`, `api/templates.go`, `api/logo.go`, `api/media.go`, `api/config.go`, `api/settings.go` | columns of `orgs`, `templates`, `logos` | single-row writes |
| **Directory and routing** | `api/org.go`, `api/router.go`, `api/pages.go`, `api/clientip.go`, `api/cursor.go`, `api/events.go` | none of its own | which campaign a host names, pages, paging keys, client address |
| **Mail** | `api/mail.go` | none | one SMTP exchange per message |
| **Browser version** | `web/src/Browser.tsx`, `db.ts`, `prefill.ts` | IndexedDB: `tracking` (a history per mayor), `settings` (the campaign, its texts, what was adopted of it); what each tab shows of them | save, reword, strike a line; export, merge, replace, erase; load and follow the campaign of the origin, take the one a link offers |
| **Card of a mayor** | `web/src/common.tsx` (`Fiche`) | what is typed, chosen and opened on the card; the drafts its parent holds | save, correct, remove, copy, and what each writes when it lands |
| **Team screens** | `web/src/Team.tsx`, `TeamMayors.tsx`, `TeamAdmin.tsx`, `InstanceModeration.tsx`, `Connexion.tsx`, `App.tsx`, `main.tsx`, `api.ts` | who is signed in, the card of the address, the list and its filter, the one-time passwords on screen, unsent words | enter by a link, a cookie or the form; open a card, write on it; scroll, filter, retry; draw passwords, decide requests |
| **Other screens** | the demonstration, the public pages, the forms of one request each | none that outlives the screen | |
| **Lists and crossing** | `outils/build.ts`, `matching.ts`, `sources.ts`, `noyau/csv.ts`, `noyau/texte.ts` | the persons who endorsed, the mayors in office, the town halls | file the endorsements, match each person, merge by commune, rank every mayor; read and write lists |
| **Messages** | `noyau/messages.ts`, `outils/messages-masse.ts`, `outils/config.ts` | the layers of texts, the configuration | pick a text by rank, render or refuse it, write the mailing |

How they meet. The router picks a campaign from the host, the limiter may refuse,
and a scope opens: one pool connection, one transaction. `signedIn` checks the
cookie, reads the account, and hands it to the handler, which never reads it
again. The handler sends its statements; `commit` ends the transaction before a
200 leaves, and the deferred rollback ends it on every other path. Cards and
Accounts meet in one place: closing an account gives its untouched reservations
back (`api/routes_team.go:462`). Requests create accounts and links; links and
sessions both write `accounts`. There are no messages between pods: rows, row
locks, unique indexes and two advisory locks are all they share.

A screen meets the API through calls whose answers come in any order, or never.
The team screens keep no register: a card is a snapshot an answer brought. The
browser version has no server: its tabs meet in IndexedDB, one transaction at a
time, and its only call asks the origin which campaign it is. The card of a mayor
is the same component in both, and the engine of messages is the same code in
the screens, the browser version's check of a text, and the mass mailing. The
tools are separate commands that meet through files.

What is hard in it:

- **interleaving**: several statements per request, several requests per row,
  each statement with a snapshot of its own, and a WHERE re-evaluated on the row
  as it is after a wait (`api/routes_mayors.go:511`, `:745`, `:887`); two tabs on
  one store of histories (`web/src/db.ts:166`);
- **checks that outlive what they checked**: the account read by `signedIn`, the
  `seen` of a status, the list of coordinators of `soleActiveCoordinator`; the
  settings a page read before its origin answered;
- **deadlocks** that PostgreSQL breaks: batches and closings keep rows locked
  while they wait for others;
- **failure of the commit itself**, after the answer was composed and, in
  `link.go`, after a token was spent;
- **answers out of order**: a card asked again, a filter changed, a mayor left, a
  session replaced while calls are out (`web/src/Team.tsx:248`,
  `TeamMayors.tsx:51`, `common.tsx:1854`);
- **restarts**: each start of each pod seeds, imports and removes while the
  others serve; each load of a page forgets what it held and follows its campaign;
- **limits**: `maxBatchRounds`, the ceilings on pending requests, the width of
  the pool, the windows of the limiter;
- **identity**: a name has several spellings, a commune several lives, and a
  message that thanks the wrong person is the program's worst outcome.

`PROJECT.json` lists them one by one with their line and the property that
watches each (or why none does).

What makes each component correct:

- Cards: the card says what its newest note says; nobody writes over a state
  they did not read; a mayor counted in a batch is nobody else's; a reservation
  moves only in the open; every request is answered.
- Accounts: somebody can always run the campaign; a lead reaches the volunteers
  of their team and no one else; coordination is always given by someone who may;
  a start never reopens what an incident closed.
- Sessions: a changed password ends every other session, and stays changed.
- Links: a link works once, and the last one minted is the only live one.
- Requests: a request is decided once; what it creates is created whole.
- Scope: no request waits for a second connection while it holds one.
- Browser version: no line a tab acknowledged is lost to another, but to a backup
  merged in meanwhile (section 6); the status is the head of the history; the fields a
  volunteer chose stand, and what they left alone follows the campaign.
- Card of a mayor: what is typed or chosen about a mayor stays with that mayor,
  and an act that lands takes nothing else away.
- Team screens: the words of one account are not on screen for another; the card
  on screen is of its address and catches up with what was confirmed; the list is
  of its filter; a password shown once is lost only with its screen; a guard is let go.
- Lists and crossing: every person who endorsed is accounted for, and nobody is
  thanked against the sources; a list comes back as it was written.
- Messages: only a proven endorser is told « you presented »; a text once accepted
  renders for everybody, whatever it opens on.
- Startup: the list is imported once, and no recorded work is removed with it.
- Limiter: no caller goes over the declared width; a refund gives back one place.

## 2. Plan

| # | Module | Composes | Abstract specification | Theorems | State |
|---|---|---|---|---|---|
| 1 | `Cards` | the five writers of `notes` and `assignments`, the closing of accounts included | `Register` | type, `RegisterInv`, `HeadIsNewest`, history, `seen`; `KeepingInv`, batches, reservations, the refinement of `Register` | done |
| 2 | `Coordination` | the five doors of `accounts` | none: its properties relate steps | type, `CountsStand`, last coordinator, reach of leads, giving of coordination | done |
| 3 | `Sessions` | sign-in, change, reset and seeding of a password, the instants of tokens | none: its properties relate tokens to changes | type, the survivors of a change, the order of instants | done |
| 4 | `Links` | minting, redeeming, invitations, failed commits, detached minting, the connections they hold | at most one use per link | one use, presented is gone, nobody waits holding, both properties of invitations | done |
| 5 | `Requests` | both queues, with the teams, accounts and campaigns they open | a queue where each request is decided once | type, one decision, whole decisions, the slack of the ceiling | done |
| 6 | `LocalStore`, `Adoption` | the tabs of the browser version on one store; a page on its settings and its origin | `Journal`, of `LocalStore` | the head, revisions, the refinement of `Journal`; what a load spares, and what it leaves | done |
| 7 | `Fiche` | the acts of a card whose mayor changes under it, with another window | none | words, choices, corrections | done |
| 8 | `Doors`, `TeamCard`, `MayorsList`, `Management` | the four screens of the team mode that outlive a call | none: their ghosts say what was confirmed, noted, interrupted | unsent words, links for their reader; the card catches up; the list is of its filter; passwords stand, guards are given back | done |
| 9 | `Crossing`, `Mailing`, `Csv`, `Texte` | the build of the lists, the engine and the mailing, the exchange format, the likeness of names | reference definitions in the properties | every target in one list, nobody thanked against the sources; who is thanked, and what accepted texts do; a list comes back as written; the closest name is the reference's | done |
| 10 | `Startup`, `Limiter` | pods starting under the advisory locks; counters, refunds and sweeps | none | none | not written (section 7) |

The order is that of harm: a wrong register or a campaign nobody can run is
worse than a limiter that counts one too many. The modules keep their
parameters as CONSTANTS with named assumptions, one action per statement or per
answer, and no RECURSIVE operator.

Connections have no module of their own: `Links` is where a request gives one back,
takes another or keeps one through a commit, and states that nobody waits
holding one. Left of scope are the two callers of `reacquire` in `api/logo.go` and
`api/media.go`, which follow the same rule.

## 3. The modules

### Cards: one transaction, one statement at a time

| TLA+ | Code |
|---|---|
| `notes`, `card`, `active`, `nextId` | the committed `notes`, `assignments`, `accounts.active`, and the identity sequence of `notes` |
| `lock` | PostgreSQL's row lock on each `assignments` row |
| `pc`, `arg`, `work` | the handler: the statement it is about to send, its input, its local variables |
| `tx` | what the transaction wrote and has not committed |
| `Begin` | `openScope` and `signedIn`: the account is read once, a closed one is the 401 |
| `Upsert`, `InsertNote` | `routeStatus` |
| `EditNote` | `routeEditNote` |
| `EraseNote`, `LockCard`, `ReadHead`, `RestoreHead` | `routeDeleteNote`, `restoreHead` |
| `Draw`, `TakeCard`, `Recount` | `routeBatch`: the rounds, the upsert row by row, the question asked when a round took nothing |
| `Flip`, `Sweep`, `ReleaseCard` | `routeToggleAccount`: the UPDATE of the account, and the UPDATE of its reservations row by row |
| `Commit`, `Fail`, `DeadlockVictim` | `commit`, the deferred rollback on every failure, PostgreSQL's deadlock detection |

How PostgreSQL is modelled. A statement is atomic, except the two that lock
several rows in sequence (the upsert of a batch, the release of a closing): those
take a snapshot of rows in one step and then lock and write one row per step, in
the order of the scores for a batch, in any order for an UPDATE with no ORDER BY.
A row another transaction has written is waited for (`Lockable`, `NoteLockable`,
`AccountLockable`), and the WHERE is evaluated on what that transaction left.
A lock taken for a row that no longer qualifies is kept until the end, as
PostgreSQL keeps it. An identity drawn from a sequence is never given back.

A row that does not exist yet cannot be locked by `FOR UPDATE` (`LockCard` takes
nothing on `NoRow`), but an upsert of a missing row makes the other upserts of
the same row wait: `lock` stands for both, since the unique index makes the second
insert wait for the first transaction.

`gone` is a ghost: every note that was ever committed and removed. A note that joins a
history is compared with these too, so that none comes back.

Data left out: names and words (a correction is a flag on the note), dates that
follow the status, the scores (a mayor is its rank), the criteria of a batch (the
set they select), teams (`assignments.team_id` follows the volunteer). Roles and
teams do not move in this module: they move in Coordination. The lock that
`soleActiveCoordinator` takes before a coordinator is closed is there too, since
it touches no card.

### Register: what Cards promises

`Register` is the same three committed variables with no statements and no locks:
`Record`, `Correct`, `Remove`, `Reserve`, `Toggle`, each in one instant.
`Cards!ImplementsRegister` is `TheRegister!Spec` with the identity as refinement
mapping on those variables: each commit is exactly one such operation, or
changes nothing, and nothing else is ever visible.

### Coordination: who can run the campaign

| TLA+ | Code |
|---|---|
| `account` | the committed `role`, `team_id`, `active` of each address; `Absent` is no row |
| `me` | the caller as `signedIn` read it: every rule of the handler uses this, never the row as it now is |
| `BeginCreate` | `routeCreateAccount`; the lead's account of an accepted team request is the same insert |
| `BeginGrant` | `routeGrantCoordination`: an address never known, never a promotion |
| `BeginToggle`, `BeginRole` | `routeToggleAccount`, `routeChangeRole` |
| `BeginSeed`, `Check` | `seedAccount`, and `bootstrap`'s refusal of a campaign nobody can enter |
| `Count`, `LockNext` | `soleActiveCoordinator`: `SELECT ... FOR UPDATE` takes its rows from one snapshot, then locks each and keeps the ones that still qualify |
| `Reaches`, `Written`, `Write` | the WHERE and the SET of each statement, evaluated on the row once it is unlocked |

Passwords, names, invitations and the creation of teams are left out: the teams are
there from the start, because no route deletes one and a role change only asks
that it exists.

### Sessions: which token an account still recognises

There is no table of sessions. A token carries the second it was minted in
(`iat`), an account the second of its last change of password, and `signedIn`
compares them. A tick is a fraction of a second, so that truncation is real, and
each request is served by a pod whose clock is `Ahead` of the database's by
some ticks.

| TLA+ | Code |
|---|---|
| `account` | the committed `password_hash` (the password it verifies, and whether its scheme is an older one), `password_changed_at`, `active` |
| `write`, `lock` | the row a transaction has written and not committed, and its lock |
| `sessions` | every token ever minted; `Accepted` is `verify` and `signedIn` together, on one pod |
| `Second` | `Server.now`, truncated as `mint` and `changedAt` truncate it |
| `BeginSignIn`, `Verify`, `Reread` | `routeSignIn`: the hash read, verified while others write, the account read again |
| `Rehash`, `RehashFails` | the upgrade of an older hash; its failure is logged and the sign-in goes on |
| `BeginLink` | the session a link opens, at any moment |
| `BeginChange`, `Prove`, `Stamp`, `Write` | `routeChangePassword`; a session a link opened proves nothing more |
| `BeginReset` | `routeResetPassword`, from `Stamp` on |
| `BeginSeed`, `Written` | `seedAccount`'s upsert: the password of the environment, the instant left alone |
| `Commit`, `CommitLost`, `Mint` | the commit, the commit whose answer is lost, the cookie |

`changes`, `changedBy`, and the fields `seen` and `ahead` of a token are history:
they say which change a request had read and by which clock, and no guard reads
them.

### Links: one session per link

| TLA+ | Code |
|---|---|
| `account`, `opener` | `accounts.active`, and who has inserted an account it has not committed |
| `link`, `lock`, `tx` | `login_tokens` by address and purpose (its unique index), row locks, uncommitted rows |
| `conns` | the connections of the pool; `Acquire` waits for one, `Granted` is where the request goes on with it |
| `BeginAsk`, `Look` | `routeRequestLink`: the same answer whatever it found, and the minting detached |
| `BeginInvite`, `OpenAccount` | `routeCreateAccount` by invitation |
| `Clear`, `ClearRow`, `Insert` | `newLinkToken`: the DELETE of the previous link and of the expired ones, row by row, and the upsert |
| `Commit`, `CommitLost`, `Release`, `Send` | the commit, the connection given back, then the relay, which may not take the message |
| `BeginRedeem`, `Spend` | `routeRedeemLink`, `redeemLink`: `DELETE ... RETURNING` |
| `Renew`, `RenewFails`, `Retry`, `GiveUp` | the commit behind the DELETE, its failure (rolled back, or landed without an answer), `spendAlone` on a connection of its own, and its five seconds |
| `ReadAccount` | the account read once the link is gone |
| `Toggle`, `Tick` | the closing of an account, and time |

`inbox` is what was delivered, and a delivered link may be presented any number
of times. `opened` and `presented` are history.

### Requests: the two moderated queues

| TLA+ | Code |
|---|---|
| `rows`, `places`, `people` | `team_requests` and `hosting_requests`; `teams` and `orgs`; the accounts of the campaign and the coordination account of each campaign opened |
| `lock`, `tx` | the row lock of a request; what a transaction has written, and the index entries it has in hand with it |
| `BeginFile`, `CheckPlace`, `CheckPending`, `Count`, `InsertRow` | `routeTeamRequest`, `routeHostingRequest`: the two early checks, then the insert with its count |
| `BeginAccept`, `BeginRefuse`, `LockRow` | `routeDecideTeamRequest`, `routeDecideHosting`, up to the `SELECT ... FOR UPDATE` |
| `Vacant`, `OpenPlace`, `OpenPerson`, `Update` | what an acceptance checks and writes, and the UPDATE of the decision |
| `BeginOpen`, `BeginAccount`, `Rename` | `routeCreateTeam`, `routeCreateCampaign`, `routeCreateAccount`, `routeUpdateTeam` |
| `Commit`, `Fail` | the commit and the deferred rollback |

The two queues are one automaton with three differences, each a conjunct on
`queue`: a team may be accepted under another name, a team is refused to an
address that has an account where a campaign is refused an address in use, and the
account of a new campaign can collide with nothing. An insert waits for whoever
has an entry of its unique index in hand (`NameInHand`, `PlaceInHand`,
`PersonInHand`), then fails if the entry was committed. The count of the ceiling
and the insert are one statement in the code and two steps here: the count is of
the statement's snapshot. `from` on a place or a person is history.

### LocalStore and Journal: the histories of the browser version

| TLA+ | Code |
|---|---|
| `store`, `screen`, `backups` | the `tracking` store of IndexedDB, what each tab shows of it, the files exported |
| `SaveTracking`, `SavedEntry` | `saveTracking` (`db.ts`): read, prepend, write in one transaction, then `setTracking` |
| `EditNote`, `DeleteNote`, `RefuseNote`, `Confirmed` | `reviseTracking`, `reviseNote`, `deleteNote`: the line at that position is compared with what the tab showed, inside the transaction |
| `LoadTracking` | a tab opened or reloaded |
| `ImportReads`, `Taken`, `ImportWrites`, `ImportShows` | the import of a backup: what a merge compares with is read in a transaction of its own, then everything is written, then shown |
| `ExportAll`, `EraseAll`, `EraseShows` | the export and the erasure |

`saveTracking` reads the clock twice, for the record and then for its line, and a minute
may pass between the two (`later`): a record is dated no later than its newest line.

`Journal` is the volunteer's view: lines added on top, one struck or reworded, a
backup put back, everything erased. `LocalStore!ImplementsJournal` is
`TheJournal!Spec` with the lines of each record as refinement mapping: tabs,
screens and transactions disappear. Its `Restore` puts a backup's history in the place of any
other, so it allows a merge to take a newer line away: what it excludes is that any other act
of a tab does.

### Adoption: the campaign of a page

| TLA+ | Code |
|---|---|
| `settings`, `page` | the settings store, what the page shows of it (`Closed` when there is none) |
| `OpenPage`, `OriginAnswers`, `Decide`, `Follow`, `Adopt` | the load effect of `Browser.tsx` with `prefill.ts`: it reads every setting, asks its origin, and writes with what it read |
| `todo`, `Step`, `WriteRefused`, `LogoUnavailable` | each handler is a list of awaited writes, one step each, with the screen update that follows it, and may stop at a refused one |
| `TypeDraft`, `SaveCampaign`, `SaveTemplates`, `ChooseLogo`, `SeeOffer`, `AcceptOffer`, `RefuseOffer`, `EraseSettings`, `ImportBackup` | the handlers of the settings |
| `OriginEdits`, `ClosePage` | the campaign corrects itself between two visits; a tab closes between two writes |

What a volunteer makes theirs is protected field by field: the nine fields of the campaign.
The texts and the logo are replaced by every layer that is followed (`Browser.tsx:298`,
`:463`), and `WhatALoadFindsChosenStands` says nothing of them.

### Fiche: one card, several mayors

`Opens`, `Closes`, `TypesNote`, `Rewrites`, `Picks`, `OpensEditor`, `OpensQuestion`,
`Corrects`, `Cancels`, `Saves`, `Revises`, `Copies` are the handlers of `Fiche` in
`common.tsx`; `SaveLands`, `RevisionLands`, `RevisionRefused`, `OnlySays` what each
writes when it lands, through `NoteAfter`, `ActiveAfter`, `PickedAfter`, `Word`: the
comparisons with a ref that the component makes there. An act that is out (`SaveAct`, `RevisionAct`, `CopyAct`) holds what its closure
caught. `status`, `changed` and `aimedAt` are derived at each render. `owed` and `choice` are ghosts: the words
typed and filed nowhere, the last status chosen and not undone. The mode is the
browser version's, where the component stays mounted while the mayor changes;
the team's, where it is mounted again, is `TeamCard`'s `Unmounted`.

### Doors, TeamCard, MayorsList, Management: the team mode

| TLA+ | Code |
|---|---|
| `Doors`: `Load`, `DetectMode`, `Boots`, `LinkOpens`, `Restores`, `Shows` | `App.tsx`, `main.tsx`, `consumeLinkToken` (`api.ts`), the boot effect of `Team.tsx` |
| `Doors`: `SubmitsForm`, `SignedIn`, `FormAnswers`, `WritesWords`, `Answered`, `SignsOut` | `Connexion.tsx`, `lastAccount` and `cardDrafts` of `Team.tsx`, the 401 of any call |
| `Doors`: `SavesTexts`, `TextsAnswer`, `TextsRefused` | `save` of `Templates.tsx`; `onEnregistre` of `TeamAdmin.tsx`, which puts back on screen the account the form was drawn for |
| `TeamCard`: `CardEffect`, `Goes`, `SignsIn`, `Ends` | the effect that follows the account and the address, and its cleanup |
| `TeamCard`: `SavesForm`, `AccountAnswers` | the two forms whose answers set the account: the profile's through a function of whoever is there, the texts' with the account it captured, whether or not somebody is |
| `TeamCard`: `Writes`, `Serves`, `Fails`, `Answers`, `ShowsCard`, `AnswersRefusal` | `showsCard`: an answer is shown if nothing has been asked since, an act's is asked again otherwise |
| `MayorsList`: `ChangesFilter`, `AsksList`, `LoadNext`, `RetriesList`, `ListAnswers`, `ListFails` | `TeamMayors.tsx`: the pause, the counter of requests, the sentinel, « Réessayer » |
| `Management`: `Draws`, `Decides`, `GuardAfter`, `Changes`, `EditsTeam`, `Notes`, `Leaves`, `ActAnswers`, `ReloadLands`, `Refuses` | `TeamAdmin.tsx` and `InstanceModeration.tsx`: the guards, `created`, `onDecided`, the reload behind each act |

The server of `TeamCard` and `Management` is one step, `Serves` and `ServesCall`: what a request does
in a transaction is Cards' and Requests'. Its two bounds on truth are kept: a
write answers with the card as its own transaction left it, and a call may be lost
before or after it acted. `revived`, `known`, `missed`, `interrupted`,
`unnoted`, `abandoned` and `raced` are ghosts: an account put back on screen by its texts, the
newest snapshot a confirmed write answered with, a refusal said, a question failed, the
passwords answered and never noted, those of them whose screen was left, an older list still out.

### Crossing, Mailing, Csv, Texte: the tools

| TLA+ | Code |
|---|---|
| `Crossing`: `ReadEntry`, `KeyAmong`, `EndRead` | `buildRecords` and the keys of `matching.ts`: the endorsements filed by person, file after file |
| `Crossing`: `Target`, `RowFor`, `Verdict`, `CounterProof`, `Namesakes`, `OtherCommune`, `ByName`, `Outcome`, `MatchNext` | the matching of a person: by the commune signed, by a name alone in the department, or not |
| `Crossing`: `Contradicts`, `MergeRow`, `DedupeNext`, `PredecessorAt`, `BaseRow`, `WriteBase` | one row per INSEE code, then the rank of every mayor |
| `Mailing`: `Rank`, `Fields`, `Render`, `InvalidTemplate`, `MergeTemplates` | the engine of `messages.ts` |
| `Mailing`: `LoadConfig`, `Start`, `MailOne`, `Reasons`, `WriteFile`, `Finish` | `config.ts` and `messages-masse.ts` |
| `Csv`: `EscapeField`, `JoinField`, `WriteCsv`; `ReadChar`, `After`, `ParseRows` | the writer; the one-character automaton of the reader, and where it is after each character |
| `Texte`: `BlockLengths`, `LongestMatch`, `MatchedWithin`, `Matched` | `longestMatch`, row of lengths after row, and the stack of `matched`, as a table over depths and windows |
| `Texte`: `QuickMatched`, `Consider`, `BestAfter`, `ClosestMatch` | `quickRatio`, and the loop of the port of difflib's `get_close_matches` |

The sex decides between two names only where the register gives one. Two cards of one commune are
compared as `rankCard` compares them, a town hall before a delegate one, then the shorter name.
A name is a sequence of tokens and their likeness a constant, since `Texte` is where
likeness is computed; a text is a sequence of lines of literals and
placeholders. The last two have one step: they compute, and their properties compare
the result with a definition of their own (the table that was written; Ratcliff and
Obershelp's ratio and the greatest pair). Likenesses are compared as fractions: the doubles of the code
rank two fractions of lengths of names as the fractions rank.

The two properties of `Mailing` are about the texts and the mayors of the start, which no step
changes. `LoadConfig`, `Start`, `MailOne`, `WriteFile` and `Finish` run the mailing beside them:
no listed property depends on the detail of these steps, which are there because they are the
control of the program that uses the engine.

### MC and proof modules

`Statuts` is the one constant `LocalStore` and `Fiche` share: the statuses, and `to_contact`
among them (`noyau/types.ts`).

`MCCards`, `MCCoordination`, `MCSessions`, `MCLinks` and `MCRequests` give their module
its instance. `MCBrowser` and `MCTeam` extend several modules that share no state, and
`MCTools` instantiates its four: a variable (`part`, `up`, `job`) says which one runs in a
behaviour, the others stay as they start, and a state of the run is a state of one of
them. `CardsProofs`, `CoordinationProofs`, `SessionsProofs`, `LinksProofs`,
`RequestsProofs`, `BrowserProofs` (of `LocalStore`, `Adoption` and `Fiche`), `TeamProofs` (of
`Doors`, `TeamCard`, `MayorsList` and `Management`) and `ToolsProofs` (of `Mailing`,
`Crossing`, `Csv` and `Texte`) extend their modules with TLAPS proofs, so that a theorem and a run speak of the
same definition.

## 4. The runs

| Run | Question | Result |
|---|---|---|
| `cards_history` | Statuses, corrections and removals on one mayor, by two authors of two teams and a coordinator, two requests in flight: does the card keep saying what its newest note says? | holds, and each request is one operation of `Register` |
| `cards_pool` | Batches, closings and statuses over two mayors: does a batch give what it counted, and does a reservation end only by a closing that finds the card untouched? | holds, `Register` is implemented |
| `cards_answers` | Batches and closings that wait for each other's rows: is every request answered? | holds, under the fairness below |
| `coordination` | Every door of the accounts, racing: what does the shared lock keep, whom does a lead reach, who comes to coordinate? | holds |
| `coordination_race` | Can a campaign lose its last coordinator? | violated: finding 1 |
| `sessions` | Sign-ins, changes, resets and a start racing on one account, two pods a tick apart: whom does a change sign out, and can a token it refused come back? | holds, within what `seen` and the clocks say |
| `links` | Links asked for, minted with an account, presented in several copies, with commits that fail, over two connections: is a link used once, is it gone once presented, does it arrive before its account, does anybody wait holding a connection? | holds |
| `requests` | Requests filed, accepted and refused in both queues, with teams, campaigns and accounts opened beside them: is a request decided once, is what it opens opened whole, how far is the ceiling exceeded? | holds: the ceiling is exceeded by what runs at once and no more |
| `browser` | Two tabs on one store, a page that loads while its volunteer types and its campaign changes, a card whose mayor changes under its acts: is a line lost, a choice overwritten, a word filed for somebody else? | holds, within what each property says: a merge may lose a line, a load replaces texts and logo; `Journal` is implemented |
| `team` | Two people at one computer, a card written while it is read, a list that changes filter, flows that draw passwords: whose words, which card, which list, which password? | holds, until a late save of the texts puts an account back on screen, and as long as a screen of passwords is not left |
| `team_address` | Is the card on screen the one its address names? | violated: finding 2 |
| `tools` | Every small set of endorsements, registers, texts, lists, cells and words of the instance: who is matched, thanked, written to, and does a file come back? | holds, but for the emails a placeholder opens (section 6) |

**Bounds.** `MaxRequests` caps the requests ever begun (four in the passing runs
of the API, of which two are in flight at once); `Doors` names the routes a run exercises.
Two requests in flight are enough for every conflict of this code, which is always
between one transaction that waits and one it waits for; the third actor that
`coordination_race` needs (a promotion committed while a request waits) is given
to it. Four requests let a history reach two notes, be corrected and emptied, and
a reservation be taken, worked, given back and taken again. One mayor is enough
for the history, because no statement of a status, a correction or a removal
names another; two are needed in the pool, for a batch that gets one row and loses
the other. The run of the answers has three, so that two rounds of a batch and a
closing can each hold a row the other wants: TLC finds the deadlock if
`DeadlockVictim` is left without fairness. `MaxBatchRounds = 2` is enough for a batch to fill over two rounds and
to stop at the cap while cards remain; `BatchSize = 2` for it to be reached. Two
statuses, `to_contact` and another: the code compares a status with `to_contact`
and with `seen`, and nothing else. Three addresses and two teams let a lead be
promoted, moved and closed while they act on a volunteer of their team, with a
coordinator left to act on them.

In `links` three requests share two connections, so that one always waits:
a fourth is begun once one has ended. Two links are drawn, which is enough for a
link to be replaced while a copy is presented, and for an invitation and a sign-in
link to compete; the clock moves once, a sign-in link lives one instant and an
invitation three, so that one expires and the other does not. One address has an
account and one has none. In `sessions` there is one account, because every
statement of these routes names one row; two passwords, the one it was opened
with and another; two ticks in a second and a clock that moves three, so that two
instants of one second are told apart; two pods a tick apart, which are in two
different seconds half of the time; a life of two seconds and a skew of one, so
that a token expires and one of the future is accepted. Three requests are begun,
two at once: a session, a change that waits, and another that overtakes it.
In `requests` the ceiling is one and two requests run at once, so that it is reached,
exceeded by one and refused; three names let three rows be pending at once, which is
what a ceiling one too high would allow; two addresses let an account be
taken by another door between a check and an insert; four requests, a filing, two
decisions of it and another door.

In `browser`, two tabs and one mayor are enough for the histories, because a
transaction names one record; four gestures let a line be written in one tab, read in
the other, moved under it and struck there; two minutes tell a newer record from an
older one, and make two lines of one minute. The page has three gestures, one edit of its origin and one
refused write, from three stores: a first visit, one that adopted before the snapshot
existed, one that follows. The card has two mayors, one with two lines of the same
minute, five gestures of which two begin an act, and one write of the other window: an
act, a mayor left for another, words typed, a second act, and the landing of both.

In `team`, two accounts share the computer; the card has two mayors, four numbers of questions
(a load, a write, a second load, and the read it starts), one colleague's write, and a
replaced account; the list two filters, three changes and two rows; the management two
requests and three calls, of which two may draw a password while a reload is out. The
counters of calls are bounds, the calls in flight have none of their own.

In `tools` two endorsements are read, over three first names of which two are compound and one of the other sex, a mayor whose sex the register leaves out, five
spellings of three communes and two years: the pairs a rule tells apart. The texts are
seven, in two files of the six at a time; the lists hold two mayors of every kind the
engine or the mailing distinguishes; the cells have two characters of the five the
format tells apart, in rows of two, with and without one under the header; the words four letters of an alphabet of two, against
two possibilities.

**Symmetry** is over the requests (and the teams, and the addresses the start says
nothing of, in Coordination). `cards_answers` checks liveness and has none;
`sessions` has none either, because its requests are served by different clocks;
nor have the runs of the screens and the tools, which are small enough without.

**Deadlock** is not checked: the system rests when the requests, the gestures or the
calls the bound allows have all been answered. That no request waits for ever is
`EveryRequestIsAnswered`.

**Fairness** (`FairSpec`, used by `cards_answers` only): weak fairness of each
request's next statement, because its goroutine runs and PostgreSQL grants a
lock once it is free, and of `DeadlockVictim`, because PostgreSQL looks for
cycles after `deadlock_timeout`. None on the arrival of requests, and none on
`Fail`. Without the second, two batches that hold each other's rows would wait
for ever; with it, one of them answers 500. Nothing makes an answer reach a browser, so the
screens state no liveness: what must come is stated of the states where every call has
answered (`TheScreenCatchesUp`, `ALoadLeavesItFollowing`) or as a guard that is let go
(`NoGuardIsLeftHeld`).

Every property of a passing run has a mutant in `PROJECT.json`: a definition of
the model changed as a plausible bug would change the code (a lock skipped, a
WHERE not re-evaluated, a counter not compared), under which TLC finds the property
violated.

The type invariants of Cards, Coordination, Sessions, Requests and LocalStore, and the
inductive invariants of section 5, are proved and in no run; `TypeOK` of the other modules
is there for the reader and for the exploration of an instance.

## 5. What is proved

Each for every value of the module's constants: any number of mayors, accounts,
addresses, requests, names, rows, pods, links and connections, any batch size, ceiling,
life, skew and length of a second; any number of tabs, backups, campaigns, settings written
before, acts of a card, filters and pages of a list; any texts, layers of them, configurations,
endorsements, registers and directories; any cells, columns and rows of a list; any
strings and cutoff. The assumptions are those the modules
name (`CardsAssumption`, `CoordinationAssumption`, `SessionsAssumption`, `LinksAssumption`,
`RequestsAssumption`, `StatutsAssumption`, `ReceivedAssumption`, `BoundsAssumption`,
`IdleAssumption`, `AdoptionAssumption`, `FicheAssumption`, `DoorsAssumption`,
`TeamCardAssumption`, `MayorsListAssumption`, `ManagementAssumption`, `MailingAssumption`,
`CrossingAssumption`, `CsvAssumption`, `TexteAssumption`): the null values are
outside the sets they are null for, the sets that are counted are finite, the bounds are
numbers. TLC evaluates each of them on its instance.

Six say more. `ReceivedAssumption` says a backup is the export of another browser of this
program, whose records each say what their newest line says: `validTracking` checks a shape,
and a file edited by hand may hold anything. `AdoptionAssumption` says the settings a page
starts from, and those of a backup, were written by this program: a snapshot of an adoption
under this origin's slug holds the fields of one of its versions (`OwnSnapshot`), because a
snapshot is only ever written with what a campaign published, under its own slug
(`web/src/Browser.tsx:255`, `:478`). `CrossingAssumption` says of the register what the build
measured on it (`outils/build.ts:290`): one mayor per INSEE code, and no two communes of a
department under one name; and that a card of the directory has
a code (`outils/sources.ts:311` skips the others). `MailingAssumption` says a text is lines of
parts, and that what is typed in a text is told apart from what is put in its place: nobody
can prove what a campaign writes in its own words. `CsvAssumption` says no list has a single
column: those the tools write have more (`outils/build.ts:435`, `:504`, `:561`,
`outils/messages-masse.ts:259`). `TexteAssumption` says a cutoff is a ratio above 0, in hundredths (the
0.93 of `outils/build.ts:301`).

**`CardsProofs`**

- `TypeCorrect`: `Spec => []TypeOK`.
- `RegisterInOrder`: `Spec => []RegisterInv`.
- `HeadIsAlwaysNewest`: `Spec => []HeadIsNewest`.
- `HistoriesGrowAtTheHead`: a note that appears is newer than all its card ever had, those
  removed included, or a correction of one that is there.
- `NobodyEverOverwritesUnread`: no status is committed over a state its writer did
  not name.
- `KeepingInOrder`: `Spec => []KeepingInv`.
- `BatchesKeepTheirPromise`: `BatchKeepsItsPromise`.
- `ReservationsAlwaysMoveInTheOpen`: `ReservationsMoveInTheOpen`.
- `RegisterIsImplemented`: `Cards` implements `Register`.

`HeadIsNewest` is not inductive: the commit that would break it is prepared many
statements earlier. `RegisterInv` says what each request has already locked and
written at each statement: a status has its card's row locked, written with what
its note will say, and `seen` still true of the committed row; its note, once
drawn, is newer than the card's whole history, because no other request can commit
a note of a card whose row is locked; a removal has its notes locked, and from
`readHead` on its card, so the head it read is still the newest that is left; a
batch or a closing writes rows that say exactly what the committed ones say. Each
step keeps these, step by step in the proof; a commit turns them into
`HeadIsNewest`; and for the other requests, the row lock is why nothing moved.
`IdsAreSpent` and `NotesAreLocked` are the two facts about notes this needs. `PastInv`
says the same of the notes that were removed: their identities are spent, and the note of a
status under way is newer than any its card has lost.

`RegisterInv` says what is written agrees with what is committed; it does not say that
what is written is what the ROUTE writes. `KeepingInv` does: no two notes have one id; a
turned account is locked, so no other request turns it meanwhile; and, of each request
(`InKeeping`), a batch has written reservations for its own volunteer only, on locked rows
that are still free, as many as a batch at most; a closing has turned its target, whom its
author manages, and freed only that account's cards still to contact; a status adds one note
of its author, a removal strikes the one it names. TLC checked it as an invariant of the
three instances of Cards before it was proved. The refinement then has one lemma per
operation of `Register` (`CommitRecords`, `Corrects`, `Removes`, `Reserves`, `Toggles`): under
both invariants the three committed variables move at a commit as that operation says, and
every other step leaves them alone. That a round draws no more than a batch needs
`BestIsLimited`, that the best `k` of a finite set are at most `k`: the scores being a
total order on mayors, the worst of any set of more than `k` has `k` before it.

**`CoordinationProofs`**

- `TypeCorrect`, with the rule that a lead has a team.
- `CountsAlwaysStand`: `CountsStand` is inductive: the rows counted so far are
  locked, and those kept are exactly those that still coordinate.
- `LastLeavesUncounted`: if a step leaves a campaign with no coordinator, the one
  who left was not in the list its request had counted.
- `LeadsStayInTheirTeam`, `CoordinationIsAlwaysGiven`: from `CountsStand`, since
  what a request writes is still what its statement would write on the committed row.

**`SessionsProofs`**

- `TypeCorrect`: the types, and that no token or change is of a second to come.
- `SessionsInOrder`: the invariant below is inductive.
- `ChangesSpareWhatFollows`: a change signs out nobody whose session was opened
  after it was there to be read, on a clock no slower than its own.
- `InstantsAlwaysGoForward`: the instant of the last change goes back only when two
  changes overlapped, or the second was stamped by a slower clock.

`AChangeSparesWhatFollows` alone is not inductive: a token is minted long after
its request read the account. `IInv` follows the reading: a request (or a token)
that has seen as many changes as there are, on a clock no slower than the last
one's, will stamp (or has stamped) a second no earlier than the one in the row.
What keeps it is that seconds never go back (`\div` is monotone, the one fact of
arithmetic, proved over any two numbers first), that `changes` counts each commit,
so whoever had not seen it no longer claims to, and that the row lock makes a
written row differ from the committed one in nothing but what its route writes.

**`LinksProofs`**

- `LinksInOrder`: the invariant below is inductive, and a delivered link has a number
  that was, or could be, drawn.
- `LinksOpenOnce`: `SingleUse`.
- `PresentedLinksAreGone`: `PresentedIsGone`.
- `NobodyEverWaitsHolding`: `NobodyWaitsHolding`, from an invariant of its own
  (`WaitersHoldNothing`): a request has given its connection back before it comes to a
  step that waits.
- `MintingsInOrder`: `Spec => []MintingInv`.
- `InvitedAccountsAlwaysExist`: `InvitedAccountsExist`.
- `InvitationsAlwaysOutliveSignIns`: `InvitationsOutliveSignIns`.

A link opens a session two steps after the DELETE that took it, and its commit may have
failed in between. `IInv` follows it from hand to hand: a written row is a locked one
(`WritesAreLocked`); a link in a committed row was drawn, is in that row alone and has
opened nothing (`RowsAreUnspent`); whoever has not landed theirs yet, and whoever has
landed its end and reads the account, has it to themselves (`OwnersAreAlone`); whoever
renews has the row locked, and deleted (`RenewalsHold`); and a link that was presented is
gone, or in the hands of the one who spends it (`PresentedAreSpent`).

The two properties of invitations rest on `MintingInv`: a link in the table, or delivered,
has its account (`AccountsBehind`), and where a request is says whose account it has behind
it, one that is there or the one it is inserting itself, and what the rows it is about
to remove are: of its own key, expired, or the very link it presents (`OnItsWay`). TLC
checked it on the instance of `MCLinks` first.

**`RequestsProofs`**

- `RequestsTyped`: `Spec => []TypeOK`.
- `RequestsInOrder`: the invariant below is inductive.
- `DecisionsAreAlwaysWhole`: `DecisionsAreWhole`.
- `EachDecidedOnce`: `DecidedOnce`.
- `TheCeilingHasItsSlack`: `CeilingSlack`.

A decision commits a row, a place and a person at once, and what makes that right was
checked several statements before. `IInv` says, of each request: where its route may be and
what it has written by then (`Shape`); that the row it decides is its own to decide, locked
and still pending, and that its own copy differs in the state only (`Claim`); that the name
and the address it has entered in a unique index are in no committed row, and in nobody
else's hands (`Own`). The waiting of an insert for an index entry (`NameInHand` and its
kind) is what makes the last one inductive: without it two requests would hold one name, each
correct against the tables alone. A commit turns `Own` into the unique indexes (`Indexed`)
and `Claim` into the wholeness of what was opened (`Opened`). `OneMoves` carries the three
over to the other requests once, for every step but the commit and the renaming of a team.
The ceiling has an invariant of its own: the pending rows, and the requests the count has let in
and that have not committed, are together within the slack.

**`BrowserProofs`**, of `LocalStore`

- `StoreInOrder`: `Spec => []StoreInv`: the types; every record stored, shown, exported or on
  its way with an import says what its newest line says and is dated no later than it; and an
  import that is about to write puts back a file of the disk.
- `StatusIsAlwaysTheHead`: `StatusIsTheHead`.
- `RevisionsAreAlwaysOfWhatIsShown`: `RevisionsAreOfWhatIsShown`.
- `JournalIsImplemented`: `LocalStore` implements `Journal`.

The head is inductive with its backups: a removal gives back the head of what is left, and a
file put back holds only what a browser had. What a screen shows needs nothing: `Confirmed`
compares the line inside the transaction, so a stale screen changes no line or the one it
shows (`SavesALine`, `RewordsALine`, `StrikesALine` say what each act commits). The refinement then
has one lemma per step: an act is `Journal`'s addition, rewording or striking of that very line,
an import or an erasure its restoration or erasure, and the steps of a screen stutter.
A merge is a restoration like another: that it may be of an older history is in `Journal`.

**`BrowserProofs`**, of `Adoption`

- `AdoptionInOrder`: `AdoptInv`: every handler's list holds only writes it may do (`Lawful`): a
  snapshot written is the origin's own, and a load's list writes no setting that load
  found chosen (`Spares`).
- `WhatALoadFindsChosenAlwaysStands`: `WhatALoadFindsChosenStands`, of the nine fields, since a
  step of a load does the first write of its list.
- `ALoadAlwaysLeavesItFollowing`: `ALoadLeavesItFollowing`, from `FollowInv`.

What a load leaves is decided when its origin answers and true when its last write lands.
`FollowInv` says it of the whole list: for the layer, the fields and the snapshot, the LAST
write of each that is still to do, or the store where none is (`Leaves`, `LastOf`), is
what the campaign's following asks. Deciding makes it so, a write of the load keeps it (what it
wrote was the last, or another is to come), and whatever else writes marks the load as no
longer alone.

**`BrowserProofs`**, of `Fiche`

- `FicheInOrder`: an act that is live is of the card on screen, and one revision at most is
  (`ActsInv`); the drafts the parent keeps hold what the card shows (`WordsInv`).
- `WordsAreAlwaysKept`: `WordsAreKept`.
- `CorrectionsAlwaysStay`: `CorrectionsStay`.
- `ChoicesAlwaysStand`: `ChoicesStand`, from `ChoiceInv`.

`WordsAreKept` needs the mirror: what is typed is in the field and in the parent's draft at
once, so the swap of the card takes nothing. `ChoicesStand` needs to know where a
choice is while a removal is out, since the removal drops it and gives it back if it is refused:
in the select when no removal may give it back, and with that one removal otherwise
(`PickInv`); an act superseded by a change of card gives back nothing, because its number
is not later than the choice's.

**`TeamProofs`**, of `Doors`

- `DoorsInOrder`: what a page holds unsent is of the last account seen at a door, a session on
  screen is that account's unless the texts put another back (`revived`), a page still loading shows nobody and holds nothing, and a
  token not yet redeemed is of whoever opened the link, until somebody else sits down.
- `WordsStayWithTheirWriter`: `UnsentWordsStayWithTheirWriter`, which promises nothing from a
  late save of the texts to the dropping of the words.
- `LinksOpenForTheirReader`: a link redeemed by a page is of the person in front of it;
  `LinksAreForTheirReader` is proved, and is in no run.

**`TeamProofs`**, of `TeamCard`

- `CardInOrder`: each call has a number of its own, none answers more than the server holds,
  the last one asked, once served, answers all that is known; and what is shown knows
  all that is confirmed, or the last question is an act, or its repeat, that is still out
  and whose answer will be shown.
- `ScreenCatchesUp`: `TheScreenCatchesUp`, which is that invariant when nothing is out.

**`TeamProofs`**, of `MayorsList`

- `ListInOrder`: `ListInv`: a question under the last number is of the filter on screen; as
  long as no question has failed, the rows of another filter are shown only while the list
  loads, and no page is asked for under them; no mayor is there twice.
- `ListIsAlwaysOfItsFilter`: `ListIsOfItsFilter`. Until a question fails there is no
  « Réessayer », which is the one answer no number guards.

**`TeamProofs`**, of `Management`

- `ManagementInOrder`: each call is about what its kind says; the password of a request is of
  one the server has decided and, without a race, the screen too; and a list that was read
  and has not landed agrees with the passwords on screen, without a race.
- `PasswordsAlwaysStand`: `PasswordsStandUntilNoted`: a password answered and never noted is on
  screen, or was on a screen that was left, or came after.
- `GuardsAreAlwaysGivenBack`: `NoGuardIsLeftHeld`.

**`ToolsProofs`**, of `Mailing`

- `TheProvenAreThanked`: `OnlyTheProvenAreThanked`.
- `AcceptedTextsAlwaysRender`: `AcceptedTextsRender`, whose exception is the email that a
  placeholder silent for the samples opens when it speaks.

No step changes the texts, so each is a fact about `Render` over any merged texts. A mayor of
another rank has no value for the endorsement, a placeholder without a value makes the whole
text fail, and the substitution puts nothing else in a text than literals and values (`RenderedFrom`):
what renders says no endorsement. `SampleHasTheFields` is why a text accepted for nobody is
accepted for everybody: the sample of an audience has a value for exactly the placeholders
its mayors have one for, whatever note, telephone or history they have. What may differ is which of
them are empty: a paragraph whose only content is empty goes, so another mayor's text has
more in it (`SaysMore`, `SampleSpeaks`), and opens either on the same literal or on a placeholder
that speaks for that mayor alone (`OpensOrSpeaks`).

**`ToolsProofs`**, of `Crossing`

- `CrossingIsSound`: `CrossingInv` is inductive.
- `TargetsAreAccountedFor`: `EveryTargetIsAccountedFor`.
- `TheSourcesAreHeard`: `NobodyIsThankedAgainstTheSources`, of the name filed first under each
  key; the others of the key are not compared (`CreditedNamesAgree`, section 6).

`CrossingInv` follows the stages. While the files are read, a person's score is that of the
endorsements filed under them, and from `EndRead` on that of what they list with the bonus
(`PersonsInv`). Each target the match has been through is in one of the three lists
(`CountInv`), and each row of the first says a mayor in office no rule tells from the name filed first,
of the commune signed unless the name alone was followed (`MatchInv`, `OutcomeIs`). The
deduplication has kept one row per INSEE code met so far, at the best confidence met for
it, and counted the others (`KeptInv`, `BestInv`). That the base then writes the row of the
right mayor needs that a code is in the register once, which makes `PredecessorAt` and
`KeptFor` choose the only row there is.

**`ToolsProofs`**, of `Csv`

- `TableRead`: reading back the text of any rows gives those rows, when none has a single
  column.
- `ListsAlwaysComeBack`: `ListsComeBack`.

The reader is a function over the positions of the text, defined from the position before:
that it exists, and what it is at each position, is shown first (`AfterIs`), by the least
position where it would fail (`UpTo`), which takes the place of an induction. The rest
follows the reader along what the writer wrote. `Starts` says where in the text a field or a
row begins; an escaped field leaves the reader at its end with that field as the current one,
through plain characters (`PlainRead`), or through quotes, each of the doubled ones two
characters for one (`QuotedRead`, `FieldRead`); the separators and the line ending then make the row
(`RowRead`), and the rows the table. A cell that is empty needs no quotes, and its row
ends all the same, because a row of two columns has met a separator: a row of one empty cell
would be a blank line, which the reader drops, and no list of the program has one column.

**`ToolsProofs`**, of `Texte`

- `MatchedIsAlwaysRatcliffObershelp`: for any two strings, `Matched` is `RatcliffObershelp`, and
  what it finds in a window is the block and what it finds on both sides of it.
- `TheClosestIsAlwaysTheReference`: `ClosestIsTheReference`.

The matcher and its reference are functions of a depth, defined from the depth before, so that
`StepByStep` gives them and `UpTo` carries what is said of them from one depth to the next; the
second half of the first theorem is that the depth is never met, since what is left on each side of
a block is narrower (`DepthsAgree`). The rest has four parts. `LongestMatch` finds the longest block
of its window, leftmost in a then in b (`HitIs`): the entry of the table at two characters is
the length of the longest block that ends at both (`LengthsAreLongest`), and a block that is
longest is as long as the entry where it ends. The matcher cuts numbers and the reference
strings, but the blocks of a window are those of the strings it stands for (`BlocksOfParts`,
`SidesOfParts`), so both add up the same (`SameWithin`). The cheap tests are bounds because
what is matched is pairs of characters, one to one (`MatchedPairs`): there are no more than
either string has characters, and each goes to one `QuickMatched` counts, the one of the
same character with as many before it in the string as it has before it among the pairs
(`PairsAreCounted`). Last, the pair of likeness and string is a total order on the
possibilities that are close (`GreaterIsAnOrder`, `BeatsIsAnOrder`), fractions being compared
crosswise, which needs that none is of two empty strings, or all are (`CloseIsNotEmpty`,
`EmptyIsAlone`, and a cutoff that is not 0): so that keeping the better of two, one possibility
after the other, keeps the best (`ClosestIsBest`).

**Only model-checked.** `EveryRequestIsAnswered` is liveness, beyond the prover. Every other
property of a passing run is proved.

## 6. Findings

The first two have a run that shows them; the others are properties stated in the
modules, which TLC finds violated when it is asked, and which no passing run lists.

1. **The campaign can lose its last coordinator** (`api/routes_team.go:583`). The two
   routes that can take a coordinator out lock the rows that coordinated at the
   start of their SELECT. A promotion or a reopening takes no such lock: a
   coordinator made while a request waits on that SELECT is not in its list. One
   request closes the new coordinator, having counted the old one; the other closes
   the old one, whose list never had the new one. `TheLastLeavesOnlyUncounted` is
   what the lock does guarantee, and is proved.
2. **A card is shown under another mayor's address** (`web/src/Team.tsx:253`). An act
   that answers after its volunteer has left for another mayor is not shown, and asks
   for its own mayor again with a newer number than the load of the next one: that
   read is now the last asked, its answer is shown, and the load's is dropped. The
   comment above (`Team.tsx:214`) names this very outcome as what the counter is there
   to prevent. `TheScreenCatchesUp` is what the counter does guarantee.

Properties the code does not keep, without a run of their own:

- `NoCardLeftToAClosedAccount` (Cards; `api/routes_team.go:464`): the closing of an
  account gives back only the cards still to contact. A card worked before it, then put back
  to `to_contact`, keeps its volunteer: no batch draws it, and no route gives it back.
- `CoordinationHasNoTeam` (Coordination; `api/bootstrap.go:143`): the account of
  `PARAPHE_ADMIN_EMAIL`, moved to lead a team, coordinates again at the next start and
  keeps its `team_id`.
- `SessionsOfAnOldPasswordFall` (Sessions; `api/routes_session.go:292`): a sign-in that
  verified the old password mints its token after a change committed in between.
- `UpgradesKeepThePassword` (Sessions; `api/routes_session.go:284`): the upgrade of an
  old hash writes the password just typed over a reset committed while it was verified.
- `MergeNeverGoesBack` (LocalStore; `web/src/db.ts:441`): a merge compares with the
  histories it read in an earlier transaction, so a line another tab saved in between is
  replaced by an older record. The screen says a merge « ne reprend que ce qui est plus récent ».
- `ALoadTakesNothingTyped` (Adoption; `web/src/Browser.tsx:418`): the load writes with
  what it read before its origin answered; fields saved meanwhile are replaced, where
  `:373` says what the volunteer typed is theirs.
- `AnAddressedCardComes` (TeamCard; `Team.tsx:269`): an address whose load was cleaned up
  while its answer was out, or dropped by a later question, may rest without a card.
- `RetriedListIsOfItsFilter` (MayorsList; `TeamMayors.tsx:212`): « Réessayer » compares
  no counter: the answer of the old filter lands on the new list.
- `UnsentWordsReachNobodyElse` (Doors; `TeamAdmin.tsx:688`): the texts saved answer with the
  account the form was drawn for, and `onMe` is `setMe` (`Team.tsx:513`). Alice saves them and
  loses her session, Bruno signs in and writes, the answer puts Alice back on screen beside
  Bruno's unsent words, which `Team.tsx:370` says the change of account drops.
- `APasswordContradictsNoRequest` (Management; `TeamAdmin.tsx:852`): a list asked for
  before a decision and answered after it puts the request back beside its password.
- `AbandonedIsSaid` (Fiche; `common.tsx:2353`): an editor whose words differ gives way to a
  question without a word, where the comment of `:1434` says abandoning is said.
- `CreditedNamesAgree` (Crossing; `outils/matching.ts:125`): the endorsements of one key
  are compared with the name filed first, so that two of them may contradict each other.
- `AcceptedTextsRender` without its exception (Mailing; `noyau/messages.ts:691`): an email whose
  first line is `{contexte}`, with `OBJET:` after it, opens on `OBJET:` for the sample of its
  file, whose rank (`no_signal`) has no context. It is accepted, and line 777 then refuses it for a
  `commune_has_endorsed` mayor, who has one; `{proposition_telephone}` and `{argument_personnel}`
  do the same once the campaign telephones or the volunteer has a note. The comment of
  `:663-668` says the samples are there so that no rank is left « to be discovered by a mayor ».

Observed, and stated nowhere: the command line
refuses an optional key left empty, which the screen allows (`outils/config.ts:93`); a main
list that fails keeps the rows of the former filter (`TeamMayors.tsx`; `ListIsOfItsFilter` says
« as long as no question has failed »); the screens of one-time passwords lose them when
another tab is opened (the exception `abandoned` of `PasswordsStandUntilNoted`); a sign-out that does not reach the server leaves its cookie
(`Team.tsx:322`); an automatic adoption clears a text typed before it (`Browser.tsx:298`); a
tab closed between two writes of an adoption leaves fields without a snapshot to follow
(`Browser.tsx:246`).

## 7. Not modelled

**Startup and the limiter.** The list of mayors is fixed in Cards: its import under the
advisory lock, and the removal of the mayors that left it (`api/import.go:191`), are not
modelled, nor are the limiter's windows and refunds. Both are listed as components and
hazards; the twelve runs go to the register, the accounts, the sessions and the screens,
where a wrong state stays.

**Campaign settings, directory, mail** are single-row writes, pure functions of a
request and one SMTP exchange. Reads (lists, cards, exports, counters) change nothing.

**Of the web interface**: the demonstration answers from memory what the API answers;
the public pages and the form of the campaign send what they show in one request; of the
forms of the profile and of the texts, the answers are modelled and what they send is not; focus, layout, themes and wording change no state. The loading of
the mayors' list in the browser version is left out of `LocalStore`.

**Of the tools**: the scoring and ordering of the ranking, the downloads, the export of files
and the contextual wording of a message.

PostgreSQL is modelled from its documented READ COMMITTED behaviour as the code uses it: a
statement's snapshot, row locks, re-evaluation, unique indexes, deadlock detection. IndexedDB
is modelled as serialisable transactions, and a promise's continuation as one step.

Seen while modelling the API, and left as they are because nothing in the repository says
otherwise: the seeding of an account changes its password without moving
`password_changed_at`, so the sessions opened before it survive
(`bootstrap.go:143`); the comment of the hosting ceiling (`routes_instance.go:167`)
says the insert applies it where a count read before let two clients both write,
while that of the team ceiling (`routes_team_requests.go:141`) says of the same
statement that it is a bound with slack, which `CeilingSlack` measures; a campaign
approved while another door takes its address answers 500 where
`routeCreateCampaign` answers 409; a change proved against the hash read before a concurrent
reset may overwrite that reset; `seen` compares a status, not a version, so a card
that left a status and came back to it is written over.
