# TLA+ models of the tkdchb frontend

The repository is the frontend of a taekwondo federation portal (React, 65
source files, about 14 800 lines). Most of it is CRUD glue: registration
wizards, login and phone verification, dashboards, payment redirects and news
lists. Each of these is a thin layer over a REST backend.

The part with real algorithmic content is the **bracket engine** in
`src/frontend/src/components/Login/competitions/CompetitionBracket.jsx`. It is
the fill effect of `BracketCard`, and `spec.md` specifies it. This project
models that engine, and the stateful client flows listed in the plan below.

## 1. Inventory

### Parts of the system and how they interact

| Part | Source | State | Operations |
|---|---|---|---|
| CapacityPlanner | CompetitionBracket.jsx 59-69, 190 | declaredSize, roundsCount, SHIFT | count loop, clamp to 1, shift, hide columns |
| SlotAssigner | same file, 194-241 | the DOM player inputs and number bubbles | group by round, stable sort, write names, first-round BYE rule |
| ByeResolver | 116-141 | same DOM | one pass over the first round's cells: mark walkovers, advance the winner one column |
| SingleSurvivorPathFiller | 143-188 | same DOM, champion input | detect a single name, walk it to the last column, crown it |
| BracketBuilder (effect) | 53-253 | the whole card DOM; runs again on the same DOM | plan, assign, then fill or propagate |
| Bracket page | 467-551 | fetched draws | fetch, one `BracketCard` per draw keyed by `d.id` |
| ApiClient | api/competitions.js, auth.js, profile.js | localStorage tokens | pickToken, tryFirst fallback over URLs, response normalisers |
| Session tokens | LoginModal, Dashboard, Sidebar, MainContent, StatsCard, PrivateRoute | `<role>_token`, `user_role` | login, four logout variants, token choice |
| Payment result | pages/PaymentResult.jsx | URL query, `last_payment_enrollment_ids` cache | resolve enrollment ids, redirect |
| Coach bulk registration | CoachRegisterStudents.jsx | selection, discount state, amounts | select, apply discount (async preview), submit |
| Competition details | CompetitionDetails.jsx | competition, cardInfo, codeModal, the self-registration form | load, card check, coach code (status, approve), prefill, submit, enrollment lookup |
| Date display | CompetitionDetails.jsx 199-311 | none (pure) | jalCal, g2d, d2g, d2j, isoToJalaliFa, fmtDateFa |
| Poomsae team registration | PoomsaeTeamRegister.jsx | competition, teams (style, name, members, insurance), submitting | load, edit teams, validate, register team by team, payment intent and start, back |
| Coach agreement | CoachAgreementFlow.jsx, MatchesSection.js | step, approved, code, checked, submitting | open, terms and status load, check, approve (with a status re-read), refresh code, cancel, continue |
| OTP modals | RegisterModal, ForgotPasswordModal, LoginModal | step, timer, cooldown, loading, `verifiedPhone` | send code, verify, countdown, login |
| Player registration | RegisterplayerPage.jsx, StepThreePlayer.jsx | formData (phone, club, coach, other fields), step, clubs and coaches lists | mount, steps, form-data and coaches-of-club loads, selects, validate, post |
| Coach registration | RegisterCoachPage.jsx, stepscoach/ | formData (gender, national code, role, selectedClubs, coach, grades, confirmation), step, the national-code flag, the form-data lists, the modal | mount, steps, national-code check, form-data load, role, clubs, coach, validate, post, modal close |
| Club registration | RegisterClubPage.jsx, stepsclub/ | formData (founder_phone, address, board, licence), step, boards list, modals | mount, steps, boards load, province/county/city, validate, post, modal close |
| Enrollment cards | EnrollmentCardsBulk.jsx, EnrollmentCard.jsx | the bulk page's items, err, loading, runKeyRef; the single page's enroll, cardUrl, err, loading | the bulk load effect (ids from query, state or pid; one card request per id, filed ok, pending or error), the per-player merge of ok cards, the single page's detail and card requests |
| Profile edit form | PersonalInfoForm.jsx | data, originalData, editableFields, counties, dropdowns.coach, the dialogs, isSubmitting | load, per-field edit confirmation, address and club/coach selects (a club change asks for its coaches), checkboxes and levels, image check, confirm and post |
| Seminar registration | seminar/SeminarDetail.jsx | the seminar's allowed_roles, showConfirm, registering, alreadyRegistered, success, the message | load (seminar and profile), register button, confirm and post, the post's answer |
| Club coach management | maincontentpanel/ClubCoachesManagement.jsx | allCoaches, selectedCoaches, the removal and final dialogs, loading | load, toggle (add, refuse, ask removal), removal yes/no, confirm, final yes/no, the post |
| Coach's clubs | maincontentpanel/ChangeCoachClubs.jsx | allClubs, selectedClubs, loading | load both lists, toggle (at most three), patch |
| Club requests (coach side) | maincontentpanel/CoachRequests.jsx | requests, loading, respondingId | load (with the role's token), accept or reject, the answer |
| Presentation | homepage, sliders, panels, tables, static admin scripts | fetched lists | render |

All bracket code runs synchronously inside one React effect. The effect writes
straight into the input elements of the rendered card and **never clears
them**. If it runs again on the same card, it starts from what the previous
run left. That happens when React re-invokes effects on the same DOM: the
development double invocation, or a new `draw` object for the same mounted
card.

The client flows interact through `localStorage`, which holds the tokens, the
role and the payment caches, and through requests in flight that resolve
after the user has acted again.

### Hard behaviours

- **Propagation runs once, forward.** A walkover is advanced only from the
  first round and only one column (lines 116-141).
- **Empty names keep the old value.** A match without a name keeps whatever
  the input already shows (lines 227-228). This matters on a rerun.
- **The single-survivor walk writes blindly.** It writes the name into every
  next slot without checking that slot (line 180).
- **Different fields for fill and detection.** Detection reads only
  `player_a_name`/`player_b_name`, while filling also accepts the alias
  fields.
- **Capacity arithmetic has edges.** SHIFT is unclamped, and the fallback
  size counts the matches of all rounds.
- **Client flows.**
  - tryFirst moves on to the next candidate URL after a network error, and
    throws the last error it saw (`TryFirst`);
  - cached ids are read for the wrong payment (`PaymentReturn`);
  - an async discount preview is applied after the inputs changed
    (`CoachRegister`);
  - a token of an earlier role is preferred to the current one
    (`SessionTokens`);
  - the competition page's buttons stay enabled while their requests are in
    flight, and its answers overwrite what the user did meanwhile
    (`CompetitionDetails`);
  - the poomsae team page registers its teams one request at a time, keeps
    its inputs enabled meanwhile, and pays with the amount of the click
    (`PoomsaeTeam`, composed with `PaymentReturn` in `TeamPayment`);
  - the cards pages keep their instance when their address changes, and
    answers of the run for the old address arrive after the new run
    started (`EnrollmentCardsBulk`, `EnrollmentCard`);
  - the profile form offers the previous club's coaches until the new
    club's coaches answer arrives (`PersonalInfoForm`).

All of these are listed with their lines under `hazards` in `PROJECT.json`.

## 2. Modules

| Module | Models | State / actions |
|---|---|---|
| `BracketPlan` | applyRoundShifting, declaredSize, firstRoundInfo | Pure operators: `DeclaredSize`, `CountUp` (the `while` loop, RECURSIVE), `RoundsCount`, `Shift`, `MapRound`, `FirstRound`. Reference operators `RefRoundsNeeded` and `RefShift` are taken from spec 4.1. |
| `Bracket` | the whole fill effect | See below. |
| `SessionTokens` | localStorage tokens: LoginModal, Dashboard/Sidebar logout, MainContent and StatsCard 401 paths, and every `pickToken` | `store` (token items as a partial function key -> token, the token being the number of the login that issued it), `userRole`, `logins`; actions `Login` (with or without a token in the response), `Logout` (Sidebar's handleLogout followed by Dashboard's logout, also the idle timer), `ExpireRole` (MainContent 401: role key and user_role), `ExpireAll` (`localStorage.clear()` on 401). Each reader's key order is a sequence (the seminar page's, `SeminarOrder`, starts with `<user_role or "player">_token`); `Pick` is the first key holding a token. |
| `PaymentReturn` | PaymentResult.jsx: the redirect effect and resolveEnrollmentIdsByPid | `server` (the answer of each candidate URL for the pid being resolved, chosen when the lookup starts: each pid returns once), `cache` (last_payment_enrollment_ids, as the payment its ids belong to), `returned`, `pc`, `cur`, `cand`, `shown` (the page reached); actions `ReturnWith(p, ok, hasSingle, hasIds, hasPid)` (the effect up to its await for a query of that shape, cache lookup included; `Return(p)` takes any shape) and `Answer` (one candidate URL settles, and the effect resumes). The effect's `alive` flag is read only before the await, so its cleanup is not an action. |
| `FetchOnce` | what a call of tryFirst promises its caller | The abstract single fetch: `route` (the served candidate), `pc`, `answer` (what the endpoint answered in this call), `net`, `hits`, `calls`; actions `Call`, `Reach(a)` (the endpoint handles the request once), `Lose`, `Fail`. |
| `TryFirst` | tryFirst, safeFetch and the call sites in api/competitions.js | `n` (the call site's number of candidates: one operator per call site), `route`, `pc`, `i`, `lastErr`, `answer`, `net`, `hits`, `calls`; actions `Call`, `Attempt` (one turn of the loop: safeFetch and the catch) and `Exhausted` (throw lastErr). `Abstract` maps it to `FetchOnce` (`pc` "loop" is "busy"). |
| `CoachRegister` | CoachRegisterStudents.jsx | `sel`, `filled` (rows passing validateRow), `hasDiscount`, `code`, `box` (originalAmount, discountAmount, finalAmount, discountApplied), `preview` (the request in flight, with the selection, code and totalAmount its closure captured), `loading`, `confirmOpen`, `sent` (the registration request and the amount the dialog showed), `racedPreview` (history: an input changed while a preview was in flight); actions `Load`, `Toggle`, `EditRow`, `ToggleDiscount`, `TypeCode`, `ApplyDiscount`, `PreviewAnswer`, `OpenConfirm`, `CloseConfirm`, `Submit`, `SubmitAnswer`. Each handler's batched updates are followed by the amounts effect (`Render`). An accepted preview's amounts are `BulkRegisterResponse`'s reading of `Response(shape, total, charge)`, one of the forms of answer listed in `Shapes`. |
| `BulkRegisterResponse` | api/competitions.js 207-277 (normalizeBulkRegisterResponse, pickNum) and CoachRegisterStudents.jsx 414-445 (the preview's amounts) | Pure operators. A response is a function from the fields sent to their values; a value is a natural number or null, the empty string or a non-numeric string, coded as negative integers beside undefined and NaN. `ToNumber` is Number(), `PickNum` the first alias whose Number() is finite (RECURSIVE), `Coalesce` a `??` chain, `NormalizeBulkRegisterResponse` the response with the normalised fields over it, `PreviewFinal`, `PreviewDiscount` and `PreviewAmounts` what handleApplyDiscount sets. |
| `CompetitionDetails` | CompetitionDetails.jsx | Fixed per page: `role`, `disc` (kyorugi or poomsae), `openBase` (`RegistrationOpenBase` of the competition's fields), `elig` (`Eligibility` of the competition's fields as a function of the form's locked belt; `CanClickSelf` combines them), `token`. Server: `enrolled`, `approved`. Page: `page` (loading, failed, shown, left, bank, card), `reg` (open, loading, can_register, whether the fields validate, the belt of the locked profile, merged by `MergeBelt`), `card` (cardInfo), `modal` (codeModal), `pending` (a bag of the requests in flight), `clicks`. Actions: `Load` (with the card effect's start), `CardCheck`, `OpenCoachCode`, `StatusAnswer`, `CloseModal`, `Approve`, `ApproveAnswer`, `OpenForm`, `PrefillAnswer` (`PrefillKY` or `PrefillPO`), `Edit`, `Cancel`, `Submit` (validation included; a valid form either sends the request or stops at an insurance date jalaliInputToISO cannot convert, leaving the form loading), `RegisterAnswer`, `FallbackAnswer` (the enrollment lookup after the registration), `Back`. State updates after the page is left are dropped; navigations are not. |
| `PoomsaeTeam` | PoomsaeTeamRegister.jsx | `tpage` (loading, missing, form, left, bank, cards), `comp` (registrationOpen, public_id, a fee), `teams` (a sequence of [style, whether the team's own checks pass, members, main members]: validate needs every main slot filled, so a team with no main member never passes), `submitting`, `job` (the running handleSubmit: its submission number, the teams and amount its closure captured, the team being registered, whether ids came back, the await it is at), `srv` (the registrations the server holds: submission, team, size), `intent` (the payment intent created: submission, amount), `redirect` (the bank redirect: ids returned, ids in the callback, through a backend payment_url), `subs`, `edits`. Actions `Load`, `SetType` (any style or the empty option, with the slot cut of `Reshape`: `Kept` drops members past the new style's main and reserve slots, and the empty style keeps none), `SetMember`, `EditDetails`, `AddTeam`, `RemoveTeam`, `Submit` (the checks and the first request), `RegisterAnswer` (one team of the loop, then the payment_url, free and paid branches), `IntentAnswer`, `StartAnswer`, `Back`. `Settle` is the finally. State updates after the page is left are dropped; navigations are not. |
| `TeamPayment` | the team page's callback into PaymentResult | Both modules' variables through `T == INSTANCE PoomsaeTeam` and `P == INSTANCE PaymentReturn`. `TeamReturn` is the bank's redirect of the team's intent `TeamPid` after the page went to the bank: the callback has the ids exactly when the registration returned some (a backend payment_url's callback may have anything). `OtherReturn` is another payment of the browser, taken before the team page opens: it shares nothing with the page but the cache, so its place among the page's steps does not change what the team's return meets. `PayAnswer` is a lookup URL answering. `C == INSTANCE CardMerge` checks the merge of the cards page both pages open, over `LoadedCards` (a constant TLC computes once). |
| `JalaliCalendar` | CompetitionDetails.jsx 199-311: the date display | Pure operators translated from the code: `Div` and `Rem` (JavaScript's truncating `/` and `%`), `JalLoop` (jalCal's loop over `JalBreaks`, RECURSIVE), `JalCal`, `G2D`, `D2G`, `D2J`, `GregorianToJalali` and `IsoToJalaliFa`. The reference calendar is built from the Gregorian leap rule, the 33-year Jalali rule (exact for 1343-1472) and Nowruz 1401 on 21 March 2022. The state is one ISO date `iso` and the triple `shown` that fmtDateFa makes of it; digits and padding are left out. `MinIssueDay` (the date picker's minDate for the insurance issue date: one Persian year back) and `OldestDay` (validateKY's oldest1y: one Gregorian year back) give the first day each accepts. |
| `PlayerSignup` | userpanel's register button, RegisterModal.jsx, RegisterplayerPage.jsx, StepThreePlayer.jsx | Route `at` (home or the page). Modal: `modal`, `mstep`, `cooldown`, `timer`, `sending` and `verifying` (requests in flight). `verified` is localStorage.verifiedPhone. Page: `wstep`, `done` (success modal), `formPhone`, `data` (club, coach, and `rest` for every other field validate reads), `clubsLoaded`, `coaches`, `formPending` and `clubReqs` (step three's requests in flight, answered in any order), `submitting`, `sent` (the club and coach of every post). Actions: `OpenRegister`, `CloseRegister`, `SendPhone`, `SendAnswer`, `Tick`, `CooldownEnd`, `VerifyCode`, `VerifyAnswer` (which mounts the page through `MountPage`), `NextStep` (step three mounting with both effects: `MountStepThree`), `BackStep`, `FormDataAnswer`, `ClubCoachesAnswer`, `ChooseClub`, `ChooseCoach`, `FillRest`, `Submit` (with `Valid`), `SubmitAnswer`, `CloseSuccess`. A coach is a pair <<club, 1>>, one per club. StepOnePlayer and StepTwoPlayer are not in the repository; their next is taken to leave a gender chosen. |
| `CoachSignup` | RegisterCoachPage.jsx and stepscoach/ | `cstep`; `data` (gender, national code, role, clubs, coach, and a flag per group of fields that validate reads); `codeExists` and `checks` (StepOneCoach's nationalCodeExists and its check-national-code requests in flight); `listG` (the gender whose lists step three holds) and `formReqs` (its form-data requests in flight); `submitting`, `modal` (none, error, success with or without the word the close looks for), `home`, `verified`, `sent`. Actions: `SetGender`, `SetCode`, `CheckAnswer`, `FillOne`, `NextOne`, `FillTwo`, `NextTwo` (mounting step three: `MountThree`), `BackTwo`, `FormAnswer`, `ChooseRole`, `ToggleClub` (at most `MaxSelectedClubs`), `ChooseCoach`, `FillThree`, `NextThree`, `BackThree`, `FillFour`, `Submit` (with `ValidFour`, posting through `Post`), `BackFour`, `SubmitAnswer`, `CloseModal`. A club is <<gender, i>>, a coach <<gender, 0>>, "other" is `OtherCoach`. |
| `ClubSignup` | RegisterClubPage.jsx and stepsclub/ | `cstep`; `data` (founderPhone as whether verifiedPhone was set at mount, province, county, city, and flags for the other fields); `boards` and `boardReq` (step two's list and its request); `submitting`, `modal`, `home`, `verified`, `sent`. Actions: `FillOne`, `NextOne`, `BoardsAnswer`, `ChooseProvince`, `ChooseCounty`, `ChooseCity`, `ChooseBoard`, `FillTwo`, `NextTwo`, `BackTwo`, `FillThree`, `BackThree`, `Submit` (validate, then `Post`), `SubmitAnswer`, `CloseModal`. A county is <<province, 1>>, a city <<county, 1>>. |
| `ForgotPassword` | ForgotPasswordModal.jsx, opened by userpanel.js's onForgotPassword | `shown`, `step` (phone, code, result), `phoneOk` (the phone passes the mobile check after normalizeDigits), `code` (the code string as a sequence of digits), `loading`, `cooldown`, `req` (the request in flight). Actions: `OpenForgot`, `CloseForgot`, `Tick`, `TypePhone`, `SendCode` (from the phone step, or the code step's resend once the cool-down is over), `SendAnswer` (ok, a 429 with retry_after, another failure), `Keystroke` (`TypeBox(i, val)`, the box's onChange through `SetBox`), `Verify`, `VerifyAnswer`. `BoxValue` is what a box shows. |
| `CoachAgreement` | CoachAgreementFlow.jsx, with MatchesSection's handlers | `at` (list or the competition's page), `open`, the dialog's `loading`, `step`, `approved`, `code`, `checked`, `submitting` and `pc` (the await it is at), the server's `srvApproved` and `srvCode` (a code may be issued after the approval), `orphans` (approvals in flight from closed dialogs). Actions: `OpenFlow`, `TermsAnswer`, `StatusAnswer`, `Check`, `Approve`, `ApproveAnswer` (`ServerApproves`), `RefetchAnswer`, `Refresh`, `RefreshAnswer`, `IssueCode`, `Cancel`, `OrphanLands`, `Continue` (goToDetails and handleModalDone), `BackToList`. |
| `CardMerge` | EnrollmentCardsBulk.jsx 47-166: mergeSameSectionCardsPerPlayer and the helpers it calls | Pure operators: `PlayerKeyOf` (national id, else the name key), `IsTeamEnrollment`, `SectionOf`, `PlayerKeys` (the Map's keys in insertion order, a `FoldLeft`), `BucketCard` (one item as it is, several as the first with `merged_ids`), `MergeSameSectionCardsPerPlayer`. `RefCards` is the reference: one card per player and section, standing for exactly its enrollments. |
| `EnrollmentCardsBulk` | EnrollmentCardsBulk.jsx: the load effect and the render's branches | `mounted`, `addr` (query ids, state ids, pid), `runKeyRef`, `runs` (each run of the effect: the address it is for, `alive`, the await it is at, ids left, answers filed), `loading`, `err` (message and the address of the run that set it), `items` and `itemsOf`, `navs`. Actions: `Mount` (the effect, and under `StrictMode` its cleanup and the second effect that runKeyRef stops), `Navigate` (a new address on the same instance: the cleanup and a new run), `Resolve(i)` (resolveEnrollmentIdsFromPid answers), `LoadCard(i)` (one card answer, filed by `Status`; after the last one the list and loading). `StartRun` is run() up to its first await; `View` is what the page renders. |
| `EnrollmentCard` | EnrollmentCard.jsx: the load effect | `eid`, `runs` (address, `alive`, the await it is at), `enroll` and `cardUrl` (as the enrollment they are of), `loading`, `err`, `opens`. Actions: `Open` (the page opened for an id, or its id changed: the cleanup and the reset), `DetailAnswer(i)`, `CardAnswer(i)` (the card, then the card URL taken from the detail). |
| `PersonalInfoForm` | PersonalInfoForm.jsx: the profile panel | `page` (loading, form, or left for `/`), `data` and `orig` (originalData) as records of the fields the properties read (address, club, coach, the coach and referee flags, one referee discipline and its level, a new image, every other field as `other`), `editable`, `pendingEdit`, `counties`, `coachList` (dropdowns.coach), `coachReqs` (clubs whose coaches request is in flight), `message`, `confirm`, `submitting`, `posting`, `sent`, `edits`. Actions: `Load`, `AskEdit`/`AnswerEdit` (the edit button and its dialog), `ChangeProvince`, `ChangeCounty`, `ChangeCity`, `ChangeClub`, `CoachesAnswer`, `ChangeCoach`, `ChangeOther` (checkboxes, levels, a valid image, other fields), `RejectImage`, `Save` (hasFormChanged opens the dialog), `ConfirmYes` (validateRefereeLevels, then the post), `ConfirmNo`, `PostAnswer` (originalData, or the reload after an image), `Dismiss`, `Cancel` (the reload). |
| `SeminarDetail` | SeminarDetail.jsx: the seminar page's registration | Fixed per visit: `role` (user_role, "player" when absent) and `token`. `page` (loading, error, shown), `allowed` (allowed_roles), `showConfirm`, `registering`, `already` (alreadyRegistered), `success`, `err` (the kind of message), `inflight` (the roles of the post in flight), `srv` (the roles the server registered), `posts`. `RoleArray` is roleArrayFromRole, `CanRegisterByRole` the button's guard. Actions: `Load` (the first effect), `ClickRegister`, `Confirm` (onConfirmAndPay up to its post: the token check, the role check, the post), `Answer` (registered, exists, refused, or handled with the answer lost; the finally). |
| `ClubCoaches` | ClubCoachesManagement.jsx, and the dashboard's section switch | Server (fixed): `active`, `pending`, `count` (club_count). Panel: `phase` (loading, shown, left), `listed`, `selected`, `modal`, `confirm`, `loading`, `inflight`, `removed` (club coaches unchecked in this opening), `sent` (each post with the coaches it should keep), `posts`, `opens`. Actions: `LoadAnswer`, `ToggleCoach`, `RemoveConfirmed`, `RemoveCancelled`, `HandleSubmit`, `ConfirmFinalSubmit`, `CancelFinal`, `PostAnswer`, `Leave`, `Open`. |
| `CoachClubs` | ChangeCoachClubs.jsx | `mine` (the coach's clubs at the server), `listed` (loading, listed, failed), `selected`, `loading`, `unchecked`, `sent`, `posts`. Actions: `LoadAnswer`, `ToggleClub`, `HandleSubmit`, `SubmitAnswer`. |
| `CoachRequests` | CoachRequests.jsx | `token`, `loading`, `shown` (the listed requests' statuses), `srv`, `respondingId`, `inflight` (answers sent), `answers`. Actions: `LoadAnswer`, `Respond(r, a)`, `RespondAnswer(q)` (recorded and shown, or failed; the finally). |
| `MC_Bracket` | TLC instance | Model values for names, draw sets and symmetry. It also holds the planner tables `PlanOf` (BracketPlan's loop for every declared size 1..32) and `RefPlanOf` (the specification's), which TLC computes once. |

### Variables of `Bracket`

- `dom`: the value of every player input, keyed `<<column, index, a|b>>`.
- `mark`: each number bubble: empty, a number, or the walkover mark.
- `champ`: the champion input.
- `draw`: the prop.
- `pc`: which loop of the effect is running.
- `todo`: the placed matches still to be written.
- `cur`: the propagation loop index.
- `fname`, `fround`, `fidx`: the name, round and index of the single-survivor walk.
- `builds`: how often the effect has run on this card.

### Actions of `Bracket`

There is one action per loop body of the code:

| Action | Code |
|---|---|
| `Mount` / `Rebuild` | the effect starting, including the grouping and sorting that produce `todo` |
| `AssignMatch` | one `arr.forEach` call, 217-240 |
| `Detect` | `detectSinglePlayerName` and the start of the walk or the pass, 244-246 and 153-159 |
| `PropagateCell` | one turn of the loop of `propagateByesOneStep` |
| `FillStep` | one turn of `while (true)` |
| `Crown` | the champion write |

### Data abstraction

- A name is a model value, and `REST` is the walkover label "استراحت".
- `NONE` is the empty string.
- A match is a record `[rnd, key, a, b, bye]`.
- `schema = "alias"` stands for a backend that sends the names under
  `a_name` or `player_a`: the cells get the names, while the detection fields
  are undefined.
- Match numbers are abstracted to the bubble state `"num"`.
- Layout, fitting and export are left out.

## 3. Runs

| Run | cfg | Expect | What it shows |
|---|---|---|---|
| bracket_safety | MC_Bracket.cfg | pass | For every draw of up to 2 first-round and 1 second-round matches, sizes 0/2/4, built once or twice on the same DOM: `TypeOK`; every first-round walkover winner is in its next slot (`ByeWinnerAdvances`); and when one contestant is left, the single-survivor walk writes that contestant into every slot of its path from its first-round match to the last column, and into the champion box (`SinglePathComplete`). |
| bracket_alias | MC_BracketAlias.cfg | violation | A four-player draw whose one first-round match names its only contestant under `a_name` (the alias schema): the slot shows the contestant, detectSinglePlayerName (line 146) reads only `player_a_name`/`player_b_name` and finds nobody, and the champion box stays empty (`ChampionIffUncontested`, spec 4.4 Scenario C). |
| session | MC_SessionTokens.cfg | pass | Up to three logins of any role in any order, with logouts and both 401 resets: after a logout no reader of the session, whatever its key order, finds a token to send (`LogoutRevokesAccess`). |
| session_api | MC_SessionTokensApi.cfg | violation | Coach login, then player login: competitions.js and PaymentResult send the coach's token while the panels show the player (`ApiActsAsSignedInRole`). |
| payment | MC_TeamPayment.cfg | pass | A coach builds up to two teams of two students, changing styles (the empty style included) and main or reserve members, and submits, with every server answer, while another payment of the browser has returned with any query. The form always keeps a team, and a team's main members are among its members (`TypeOK`). The payment intent asks for the fee of exactly the members the server registered in that submission, whatever the coach edited while the requests ran (`IntentAmountIsRegistered`). The submit spinner ends unless the page was left (`TeamSubmitSettles`). The bulk cards page these redirects open prints every loaded enrollment on exactly one card, one card per player and section, as the reference `RefCards` says (`MergeMatchesReference`, over every list of up to three loaded cards). |
| payment_cache | MC_PaymentReturnCache.cfg | violation | A later payment that returns with only a pid opens the first payment's cards from the cache (`CardsOfThisPayment`). |
| calendar | MC_JalaliCalendar.cfg | violation | Every day of 2023-2026 sent as an ISO date is shown by `fmtDateFa` as a Jalali date about 95 days late (1 January 2023 as 1402/01/18, not 1401/10/11). `jalCal`'s Gregorian leap count (line 225) is not the jalaali algorithm's, and line 223 drops its `+3`. With both formulas of the jalaali algorithm, the same reference agrees on all 1461 days. |
| tryfirst | MC_TryFirst.cfg | pass | For every call site size (1 to 4 candidates), every served candidate or none, and every answer of every request (data, an HTTP error, a 404, a response lost before or after the server handled it), over two calls: tryFirst implements `FetchOnce` (`FetchesOnce`, the refinement, liveness included). |
| coach | MC_CoachRegister.cfg | pass | Every sequence of up to eight inputs on two students and two codes (one accepted), with the preview answered as amount_irr, amount_toman or both and read through normalizeBulkRegisterResponse: when no input changed while a preview was in flight, the amount the dialog confirmed is the server's charge for the request sent (`ConfirmedAmountChargedUnraced`). |
| details | MC_CompetitionDetails.cfg | pass | Every role and discipline, every server answer, and up to four clicks in any order against the requests in flight: every spinner of the registration form ends, with the form usable again, closed, or the page left (`SpinnersEnd`). |
| coach_stale | MC_CoachRegisterStale.cfg | violation | Apply a code, untick the discount checkbox (or change the code or the selection) while the preview runs: the answer applies the old discount, and the dialog confirms 1 where the server charges 2 (`ConfirmedAmountCharged`). |
| player_coach | MC_PlayerSignup.cfg | violation | A verified player reaches step three, form-data answers with every coach of the gender, the player chooses club c2 and the coach of c1, fills the rest and submits: register-player names a coach of another club (`CoachOfClub`). The same request comes from choosing c1, its coach, then c2, because the club effect refetches the list but keeps `data.coach`, and validate only asks for a coach. |

The violation runs and what they show are recorded as `findings` in
`PROJECT.json`.

### Observations without a run

The project is kept to twelve runs. These disagreements were each shown by a
violation run in an earlier version, and are now recorded here:

- **The final out of place.** Without `draw.size`, the fallback size
  (line 190) is twice the number of matches of all rounds. A complete
  four-player draw (2 + 1 matches) is sized 6, needs 3 columns, and its
  final is drawn in column 4 with the last column empty. `Bracket`'s
  `FinalInLastColumn` shows it in the initial build: add it as an
  INVARIANT to MC_Bracket.cfg with `Draws <- MCUnsizedDraws`.
- **Unclamped SHIFT.** A declared size above 32 gives SHIFT = -1 (`Shift` in
  `BracketPlan`), and every round is drawn one column early. The spec clamps
  the shift to 0..4.
- **No cascade.** propagateByesOneStep advances first-round walkovers by one
  column only (`PropagateCell`). A walkover formed in the next column of a
  size-8 draw stays unresolved, where the spec (4.3) cascades to a fixed
  point.
- **404 hiding a network failure.** tryFirst keeps the last error it caught
  (competitions.js 185). If the served candidate's response is lost after the
  server handled it and the other candidates answer 404, the call throws a
  404. getBracket has two candidates, and CompetitionBracket.jsx 508 then says
  the draw is not published yet.
- **A team registered twice.** Checking "every team is registered by one
  submission" against `PoomsaeTeam` with two submissions gives a seven-step
  trace: one team on a free competition, submit, the registration answers
  without an enrollment id, and the page shows an error and stays on the
  form (line 636). The coach submits again and the team is registered a
  second time. The same happens after an error on the second team of two
  (the loop at line 573 has registered the first) or a failed payment
  intent (line 642): nothing marks the teams already sent.
- **The bank after Back.** After the coach pressed "Back" while the team
  page's requests ran, `StartAnswer` still assigns `window.location.href`
  (line 665), and the browser leaves the competition page for the bank.
- **Navigation after leaving.** PaymentResult checks `alive` before its first
  navigations but not after `await resolveEnrollmentIdsByPid` (lines
  205-246). A user who leaves during the lookup is navigated when it settles.

Four more behaviours of the competition page come out of `CompetitionDetails`
when the corresponding statement is checked against it. No run checks them,
because the run budget goes to the page's passing run:

- **A second registration.** Checking "at most one registration request in
  flight" gives an eight-step trace: open the form, prefill answers, submit,
  click "register myself" again, the new prefill answers, submit. The button
  stays enabled while the POST is pending (line 1528). The second prefill
  clears `reg.loading` and re-enables "confirm and pay".
- **The dialog reopens.** Checking "the coach-code dialog opens only on a
  click" gives a four-step trace: open the dialog, close it while it loads,
  and the status answer sets `open: true` again (line 867).
- **Eligibility lost after the prefill.** Checking "a form whose locked
  belt is allowed keeps the user eligible" gives a three-step trace: a
  player who is eligible by the competition's own profile (gender and belt
  match a men's or women's competition) opens the form, and the prefill
  answers with an allowed belt. `eligibility` (line 765) now reads the
  form's locked profile first. `normalizeLockedProfile` (lines 143-196)
  keeps no gender, so `genderOK` is false and the self-registration button
  is disabled. After "Cancel" the form cannot be opened again on this page.
  The open form's submit does not check eligibility, so the registration
  itself can still be sent.
- **The card hidden by a failed lookup.** Checking "a card button shown on
  the open page stays shown" (`[][(card.show /\ page = "shown" /\ page' =
  "shown") => card'.show]_vars`) gives a seven-step trace: the page loads and
  its enrollment check is pending, the user opens the form and submits, and
  the registration answers without an enrollment id. The first check then
  answers and shows the card, and the fallback lookup fails: the
  poomsae handler sets `canShow: ids.length > 0 || !!eid` (line 1250; the
  kyorugi handler sets `canShow: !!eid` at line 1128) to false, and the button of an enrollment the server holds disappears until
  the page is reloaded.

The coach and club wizards have no run; what TLC shows of them:

- **Clubs and coach of the other gender.** `CoachSignup`'s
  `OfferedForGender` ("every register-coach request names clubs and a
  coach form-data offers for its gender") is violated in 20 steps with
  `Codes = {k1, k2}`, `Registered = {k1}`, `NClubs = 1`, `MaxEdits = 10`,
  `MaxSubmits = 2` and `CHECK_DEADLOCK FALSE`. Choose male, reach step
  three, tick the male club, go back to step one, choose female, come back
  and submit. selectedClubs and coach stay in formData (StepThreeCoach.jsx
  67-81 only adds and removes what the list shows), and validate only asks
  that they are not empty.
- **A second post after success.** `NoPostAfterSuccess` (as a PROPERTY,
  same constants) is violated in 18 steps. The default success message
  (RegisterCoachPage.jsx 223) lacks the word the modal's close looks for
  (line 284), so the close stays on step four, and "submit" posts
  register-coach again after the server accepted the first.
- **A club without its founder's phone.** `ClubSignup`'s
  `FounderPhoneVerified` is violated in 12 steps with `Provinces = {p1, p2}`,
  `MaxEdits = 9`, `MaxSubmits = 2`: the page reads verifiedPhone once at
  mount (RegisterClubPage.jsx 35), and opened without it posts an empty
  founder_phone. `AddressConsistent` (county of the province, city of the
  county) holds on the same constants (5,158 states): each select clears
  the ones below it.

The password recovery modal and the coach's agreement dialog have no run
either. With `Digits = {1, 2}`, `CoolTime = 2`, `RetryAfters = {0, 1}`,
`MaxSends = 3`, `MaxTypes = 5`, `NULL` a model value and
`CHECK_DEADLOCK FALSE`, `ForgotPassword`'s `TypeOK` holds (3,504 states) and:

- **A send during the cool-down.** `SendRespectsCooldown` (a PROPERTY) is
  violated in a six-state trace: send from the phone step, the server answers 429
  with retry_after 1, and the phone step's button (disabled only while
  loading, line 161) sends again. Only the code step's resend reads
  `canResend`.
- **Digits in the wrong box.** `BoxShowsTyped` (a PROPERTY) is violated in
  a seven-state trace: on the code step, a digit typed into the second box of an empty
  code becomes `code[0]` and shows in the first box
  (`code.substring(0, i) + val + code.substring(i + 1)`, line 208);
  clearing a middle box shifts the later digits left.

With `MaxOpens = 3` and `MaxOrphans = 1`, `CoachAgreement`'s `TypeOK`,
`ContinueApproved` (the coach reaches the competition's page through the
dialog only when the server holds the approval) and `CodeIssued` (a code the
dialog shows is one the server issued) hold (329 states), with approvals
answered with or without a code, codes issued late, failed requests that
reached the server and dialogs closed while an approval was in flight.
goToDetails navigates to `/dashboard/<role>/competitions/<discipline>/<key>`,
a route App.js does not have, and handleModalDone then navigates to
`competitions/<key>`, which it has: the second navigation wins, and the
first stays in the history.

The cards pages have no run of their own. With `StrictMode = FALSE`,
`PidLists = {<<>>, <<1>>}`, `MaxNavs = 2`, `CHECK_DEADLOCK FALSE` and four
addresses (ids `<<1, 2>>` in the query, ids `<<2>>` in the state, a pid
only, nothing), `EnrollmentCardsBulk`'s `TypeOK`, `LoadingEnds` and
`ListOfAddress` (a page that finished loading lists its own address's
cards) hold (8,745 states), and:

- **Loading forever under StrictMode.** With `StrictMode = TRUE`,
  `LoadingEnds` is violated: the page mounts with ids, the cleanup of the
  first effect clears its `alive`, and the second effect finds runKeyRef
  equal to its key and returns (lines 357-362). The first run's answers
  are all dropped, and the skeleton stays. The guard's comment says it is
  there for StrictMode. The repository has no index.js, so whether the app
  renders in StrictMode is not known.
- **Another address's error.** `ErrorOfAddress` is violated in four
  states. The page at a pid-only address navigates to another address. The
  old run's pid lookup then fails, and its catch (line 379) calls setErr
  without looking at `alive`. The new page shows the old address's error,
  above a list loaded for the new address.

Two more things are visible in the source and have no run.
PoomsaeTeamRegister's free registration (line 632) opens the bulk page
without `kind`, so the page asks for the team's poomsae cards as kyorugi
cards (line 327). Every other caller passes the kind. The free page's
failure depends on the backend. A page that navigates keeps showing the
previous address's list while the new run loads (line 445 shows the
skeleton only with an empty list).

With `Ids = {e1, e2}` and `MaxOpens = 3`, `EnrollmentCard`'s `TypeOK`,
`ShowsItsEnrollment` (a finished page without an error shows its route's
enrollment) and `LoadingEnds` hold (405 states). `UrlOfItsEnrollment` is
violated in five states: the page opened for e1 changes to e2, and e1's
card request fails. Step 3 of the effect (lines 92-97) takes e1's card URL
from its detail and sets it without checking `alive`. The URL only decides
whether "card not found" is shown, so nothing visible follows.

`PersonalInfoForm` has no run. With `Provinces = {p1, p2}`,
`Clubs = {c1, c2}`, `MaxEdits = 2` and `MaxPosts = 2`, its `TypeOK` and
`AddressConsistent` hold: every posted county is of the posted province
and every city of the county, or they are empty (5,689,068 states).
`SubmitEnds` (a post in flight ends) holds with one province, one input
and one post (92,512 states). `CoachOfClub` is violated after nine steps.
The user confirms the edit of the club and of the coach, and changes the
club. handleChange clears the coach and asks for the new club's coaches,
but the coach select keeps offering dropdowns.coach, the old club's
coaches, until that answer arrives (lines 103-116, 215). The user picks
one, and the profile is posted with a coach of another club. Two club
changes whose answers arrive in the other order leave the same wrong
list, because the answer is not checked against the club selected now.
Whether the backend refuses such a pair is not in the repository. The
model takes `form_options.coaches` to be the profile club's coaches.
Unchecking "referee" keeps the disciplines checked; validateRefereeLevels
then returns at once (line 29) and the post sends them as selected
(lines 351-368), with no national level.

`SeminarDetail` has no run. With `Roles = {player, coach, referee, both,
club}`, `AllowedSets = {{}, {referee}, {coach, referee}}` and
`MaxPosts = 3`, its `TypeOK`, `RegisteredIsHeld` (the page says
"registered" only for a registration the server holds) and
`RegistrationSettles` hold (212 states). `PostsAllowedRoles` is violated
in four steps. A user with role "both" opens a seminar open to referees
only. canRegisterByRole enables the button because one of the user's
roles is allowed (lines 52-60), and onConfirmAndPay posts both roles
(lines 135-146), coach included. Whether the backend refuses the post or
registers a coach is not in the repository. The page reads its token as
`<user_role or "player">_token`, then access_token (lines 35-39); this
reader is one of `SessionTokens`' role-first readers (`SeminarOrder`), so
the session run checks it. After MainContent's 401 reset removes
user_role, this reader looks for player_token, which a player's earlier
login may have left.

The preview's answer goes through normalizeBulkRegisterResponse before
handleApplyDiscount reads it. With the coach cfg and `Shapes` set to one
other form, `ConfirmedAmountChargedUnraced` is violated in ten steps
(load, select, fill, checkbox, code, apply, answer, confirm, submit):

- `{amount_irr: null, amount_toman}`: pickNum takes Number(null) = 0 as
  the amount (competitions.js 212, 219), so the preview's own fallback to
  amount_toman (line 420) never runs. The dialog confirms 0 and shows the
  whole total as the discount.
- `{total_amount, payable_amount_irr}`, the names the normaliser's payable
  fallback reads: amount_irr is picked from total_amount before
  payable_amount_irr (lines 219-224), so the preview shows the amount
  before the discount and a discount of 0.

Which form the backend sends is not in the repository; the comment at line
413 names amount_irr and amount_toman, which the run checks.

The club and coach panels have no run.

- `ClubCoaches`, with three coaches, two posts and two openings
  (210,695 states for `TypeOK` and `PostsSettle`). `PostKeepsClubCoaches`
  (every post keeps the club's active coaches the user did not uncheck)
  holds when every post follows a loaded list (135,877 states). It is
  violated in two steps when the post comes first. The confirm button is
  enabled while the list loads, or after the load failed (line 26 only
  logs). "Yes" then posts an empty selected_coaches (line 62), which asks
  to remove every coach of the club. `OnePostInFlight` is violated in
  three steps: the final dialog stays open while its post runs (line 72),
  and its "yes" is not disabled (common/Modal.jsx), so a second click
  posts again. `RemovalUndoable` is violated in three steps: a coach of
  the club whose club_count is 3 is unchecked by mistake, and toggleCoach
  (line 41) refuses to check it again. This assumes that the count of a
  club's active coach includes the club.
- `CoachClubs`, with four clubs and two requests (68,265 states for
  `TypeOK`). `PostKeepsOwnClubs` holds when the request follows a loaded
  list (61,005 states), and is violated in one step otherwise. The button
  is enabled from the first render, so a coach who confirms before the
  lists arrive, or after they fail, sends coaching_clubs: [] (line 63).
- `CoachRequests`, with two requests and three answers (391 states for
  `TypeOK`). `OneAnswerInFlight` is violated in four steps. The coach
  accepts r1, then answers r2 before r1 settles. respondingId now names
  r2, so r1's buttons are enabled again (line 102) and a second answer
  for r1 is sent, possibly the opposite one. A finally that clears
  respondingId (line 62) also re-enables the row of another answer still
  in flight. `LoadingEnds` is violated: without the role's token the
  effect returns before its request (line 16), and loading, which starts
  true, is never cleared. The panel shows "loading" for good.

The insurance issue date has two lower bounds a year before the
competition. The date picker offers dates from the Persian date one year
back (`minIssueDO`, line 988, through DateObject, which is taken to keep
the month and day). validateKY and validatePO refuse dates before the
Gregorian date one year back (`setFullYear`, lines 1017-1018).
`InsuranceWindowAgrees` (the two start on the same day) is checked over
every day of 2024-2026, with the reference calendar standing for
DateObject's conversion. It fails for 731 of the 1096 days, always by one
day:

- For 366 days, the picker offers a first day that validation refuses as
  "expired". A competition on 2025-03-21 (1404/01/01) is an example: the
  picker starts at 1403/01/01 (2024-03-20), and validation starts at
  2024-03-21.
- For the other 365 days, validation accepts a day that the picker does
  not offer.

The two bounds 3 days before the competition agree (`maxIssueDO` and
minOk72h).

One more divergence is visible in `FillStep`, which follows
the code line by line, and is not a run of its own: fillSinglePathAllTheWay
writes the BYE opposite the survivor only in the first round's cell. In
later columns the survivor stands against an empty slot, where the spec
(4.4) pairs them with a BYE on every round.

### Bounds

- **Contestants.** Two names are the fewest that separate one survivor from
  several.
- **Match lists.** Up to two first-round matches and one second-round match.
  Every label (name, BYE, empty) and every walkover flag is enumerated for each
  slot. This gives:
  - two walkover cells feeding the same next cell, in both positions;
  - a second-round match already holding a contestant when propagation
    arrives;
  - single-survivor draws from either field.
- **Sizes.** 0 (missing), 2 and 4 put round 1 in columns 5 and 4, with and
  without a next column.
- **Sessions.** Three logins reach every order of two roles plus a third
  login after a logout or a 401 reset. All six roles `normalizeRole` can
  return are enumerated, with and without a token in the response. Two
  logins are enough for the violation.
- **Payments.** `payment_cache` has three payments, each able to return in
  any way: a cached payment followed by two others. The violation needs two.
- **Player registration.** `player_coach` has two clubs (one coach each),
  a two-tick cool-down, two send-code and two verify requests in flight,
  three club or coach choices and one submit. Two clubs and two choices
  (a club, then a coach of the other) are the fewest for the violation;
  the third choice reaches the club-then-club order.
- **Calendar.** `calendar` takes every day of 2023-2026 (1461 dates). That
  covers the Gregorian leap day of 2024, the Jalali leap year 1403 with its
  Esfand 30, and the Nowruz of four years. The violation shows on the first
  day.
- **Team page.** `payment` has two students, two teams and five inputs: the
  fewest for two typed teams with members (a style and a member each, and
  the added team), which the team loop and the amount need; a style change
  from standard to creative cuts members. One submission, because the pages
  leave the form after a complete one; the repeated submission is an
  observation above. Payments are the team's and one other, so the cache
  can hold another payment's ids when the team's redirect arrives. That is
  about 920,000 distinct states.
- **Builds.** `MaxBuilds = 2` covers a rerun on a dirty DOM.
- **Homonyms.** They are excluded from the bracket runs by `MCMatchLists`.
  With two contestants of one display name, the single-survivor walk runs
  and writes a BYE over the second, because contestants are identified by
  name. The spec's trigger (4.4) counts distinct names as well, so this is a
  gap in the spec and is not checked as a run.
- **tryFirst.** The call sites have 1 to 4 candidates, and all four sizes
  are checked. Every position of the served candidate is checked, including
  none. Two calls check that `answer` and `net` are reset per call.
- **Coach registration.** Two students separate a changed selection from an
  unchanged one, and the codes include one accepted and one rejected. Eight
  inputs cover the longest path to a discounted submit (six inputs) with room
  for edits before or during it. Locked (already enrolled) students cannot be
  toggled and are left out. The entry fee is 20 and a valid code takes 10
  off each entry, so every charge is a whole number of toman and the
  amount_toman form is exact. Each accepted preview takes every form in
  `Shapes`.
- **Competition page.** All four roles and both disciplines are enumerated,
  with the server's state and answers free. Every combination of the
  registration fields (three-valued `registration_open_effective`, manual
  switch and `can_register`, status, window) and the eligibility fields
  (`user_eligible_self`, a gendered competition, listed belts, and the
  competition's profile of the user) is an initial state. That gives about
  418,000 distinct states. Four clicks reach a second
  registration while the first is pending: open, submit, open, submit. They
  also reach a close and a reopen of the code dialog around an answer, and
  going back with requests in flight.
- **Card merge.** `MergeMatchesReference` takes every list of up to three
  loaded cards of two players, in four shapes (each test of
  isTeamEnrollment that makes a team card, and an individual card with a
  dash as its team name), all with or all without a national id. That
  gives 1,170 lists. Three cards are the fewest for a player with two team
  cards next to an individual card or another player's card. Players'
  names are distinct here. With homonyms and no national id,
  playerKeyOf's name key merges two players' cards into one.

### Fairness

The effect body is synchronous: once `Mount` or `Rebuild` has happened, the
steps of that run are taken without interruption. This justifies
`WF_vars(BuildStep)`. React runs the effect after the first render, which
justifies `WF_vars(Mount)`. A rerun is possible and never forced, so `Rebuild`
has no fairness. In `PoomsaeTeam`, the load and the three answers (`RegisterAnswer`,
`IntentAnswer`, `StartAnswer`) are weakly fair: each is a request the page
sent. The coach's inputs and Back have none. In `TeamPayment` the same
hold, with the lookup answer `PayAnswer`; the returns are the bank's and the
user's and have none. In `PaymentReturn`, `Answer` is weakly fair: a request the browser has sent
eventually settles, with an answer or a network error. In `TryFirst`, `Attempt` and `Exhausted` are weakly fair: a sent request
settles, and the loop is code without waits. `FetchOnce` promises, with weak
fairness, that a call in progress ends. `CoachRegister` has no fairness,
because every step is the coach's choice or an answer its properties do not
wait for. In `CompetitionDetails`, the load and every answer are weakly fair: a request
the page sent settles, with data or an error. The clicks have no fairness.
In `EnrollmentCardsBulk` and `EnrollmentCard`, every answer is weakly
fair: a request the page sent settles. The navigations have no fairness.
In `PersonalInfoForm`, the load, the coaches answers and the post's answer
are weakly fair for the same reason; the user's inputs are not. In
`SeminarDetail`, `Load` and `Answer` are weakly fair, the clicks are not.
In `ClubCoaches`, `CoachClubs` and `CoachRequests`, the load and the
answers of the posts are weakly fair (in `CoachRequests`, each answer in
flight on its own); the clicks and the section switch are not.
`SessionTokens` has no fairness: every step is a user's
choice or a server's answer. Deadlock is not checked, because a browser
session may stop anywhere.

### Mutants

Each property of a passing run is broken by a mutant of the operator that
models the corresponding code. The mutants are listed in `PROJECT.json`:

- `LocateIndex` uses findIndex's -1 (`TypeOK`), or always the first
  match's index, so the walk starts on the wrong path (`SinglePathComplete`).
- `Overwritable` accepts only empty slots.
- Login writes `_tokens`.
- The logout list is missing `both_token`.
- tryFirst also stops at a 404.
- invalidateDiscount leaves `discountApplied` set.
- Unchecking a student keeps the row's fields.
- A branch of the registration answer forgets to clear `loading`.
- removeTeam's guard is `length < 1` instead of `length <= 1`, so the last
  team can be removed.
- The team loop stops after the first team.
- handleSubmit's finally does not clear `submitting`.
- A merged card keeps only its first enrollment (`BucketCardFirstOnly`).

## 4. Plan

1. **Done: the bracket core.** `BracketPlan` and
   `Bracket`, with the runs above.
2. **Done: `SessionTokens`.** Login, the logout paths and the 401 resets,
   against the key order of every `pickToken`. Still open: a property for
   what a reader should send after MainContent's 401 reset, and two tabs
   sharing localStorage.
3. **Done: `TryFirst` refining `FetchOnce`.** The 404 that hides a network
   failure is now an observation. `pickNum` and
   normalizeBulkRegisterResponse are `BulkRegisterResponse`, composed into
   `CoachRegister`'s preview. Still open: call sites with two served
   candidates (a POST handled twice), and a run for the null amount when
   the run budget allows.
4. **Done: `CoachRegister`.** Still open: the payment-start steps after the
   registration as separate awaits.
5. **Done: `PaymentReturn`, and `TeamPayment` composing it with the team
   page.** Still open: a redirect that arrives while an earlier lookup is
   still pending (the model starts a redirect only when none is pending),
   and the payment_url callback of the backend.
6. **Partly done: `PlayerSignup`, `CoachSignup`, `ClubSignup`,
   `ForgotPassword`, `CoachAgreement`.** RegisterModal, the three wizards,
   the password recovery modal and the coach's agreement dialog. Still
   open: runs for their observations when the run budget allows, the
   double post of every wizard, and a stale `verifiedPhone` taken by a
   later visit.
7. **Done: `CompetitionDetails`.** The Jalali date arithmetic and the
   insurance-date window are `JalaliCalendar`. Still open: a run for
   `InsuranceWindowAgrees` when the run budget allows.
8. **Done: `CardMerge`, `EnrollmentCardsBulk`, `EnrollmentCard`.** Still
   open: a run for the StrictMode liveness and the stale error when the run
   budget allows, and the kind of the free team registration's cards page
   composed with `PoomsaeTeam`.
9. **Done: `PersonalInfoForm`.** Still open: a run for `CoachOfClub` when
   the run budget allows; the other dashboard panels, which only fetch and
   render.
10. **Done: `SeminarDetail`.** Still open: a run for `PostsAllowedRoles`
   when the run budget allows.
11. **Done: `ClubCoaches`, `CoachClubs`, `CoachRequests`.** Still open:
   runs for their observations when the run budget allows, and a
   composition through the server's pending requests, whose rules are
   not in the repository.
12. **An abstract `BracketView`.** The spec's pure `buildBracket`, with
   `Bracket` shown to refine it where the code agrees, and the
   first-populated-round reference for `firstRoundInfo`.

## 5. Not modelled

- **Layout and output.** Layout fitting, header scaling, image export and
  printing are geometry and I/O.
- **Presentation pages.** The homepage, sliders, galleries, news and circular
  lists, tables, the seminar list and the static admin scripts only render
  fetched data. The seminar page's mini-profile only fills read-only text.
- **Digit formatting.** Persian numerals, RTL marks and padding are
  formatting. The date conversion is modelled (`JalaliCalendar`); the
  DateObject library behind the date pickers is not.
- **The backend.** It is not in the repository.
