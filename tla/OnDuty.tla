---- MODULE OnDuty ----
(***************************************************************************)
(* The on-duty rota of a group: the cron manager writes who was on duty    *)
(* into the history, a row a day; the API shows today's person and a plan; *)
(* the alert webhook asks again, by code of its own, whom to page.         *)
(*                                                                         *)
(* A filling is cut at its queries: look (row, changes) -> decide          *)
(* (yesterday's row, the shift) -> check -> write.  The clock is read in   *)
(* look and again in decide.                                               *)
(***************************************************************************)
EXTENDS Integers, Sequences, FiniteSets, Functions

CONSTANTS
  Members,    \* users
  NoUser,     \* nobody: a nil user
  Fillers,    \* goroutines that fill the history: the manager's loop, in every server process
  Rosters,    \* the member lists a group can be given
  DutyModes,  \* the modes a behaviour can have
  MaxDays     \* bound: days of any behaviour

ASSUME NoUserAssumption == NoUser \notin Members
ASSUME RostersAssumption ==
  /\ Rosters \subseteq Seq(Members) \ {<<>>}
  /\ \A m \in Rosters : IsInjective(m)   \* GetUserByIDs finds everybody once
ASSUME MaxDaysAssumption == MaxDays \in Nat \ {0}
ASSUME DutyModesAssumption ==
  DutyModes \subseteq [shiftDays : Nat \ {0},
                       overlap : BOOLEAN,   \* two processes fill at the same time
                       midnight : BOOLEAN,  \* a day may begin during a filling
                       gaps : BOOLEAN,      \* a day may end unfilled: the manager was down
                       changes : BOOLEAN,   \* somebody stands in for somebody
                       edits : BOOLEAN,     \* members leave; the group is edited or deleted
                       days : 1..MaxDays]   \* bound on the days of the behaviour

VARIABLES
  dutyMode,
  today,
  group,     \* its members in order, whether it exists
  employed,  \* users that are not deleted
  history,   \* day -> users of its rows, the oldest row first
  change,    \* day -> who stands in, by the last change of that day
  fill       \* each goroutine: its step, its day, the members it has read

dutyVars == <<dutyMode, today, group, employed, history, change, fill>>

Days == 1..MaxDays
NoFill == [pc |-> "idle", day |-> 1, members |-> <<>>, user |-> NoUser, exists |-> FALSE]

DutyInit ==
  /\ dutyMode \in DutyModes
  /\ today = 1
  /\ group \in [members : Rosters, exists : {TRUE}]
  /\ employed = Members
  /\ history = [d \in Days |-> <<>>]
  /\ change = [d \in Days |-> NoUser]
  /\ fill = [g \in Fillers |-> NoFill]

EmployedAmong(members, users) ==
  LET kept[i \in 0..Len(members)] ==
        IF i = 0 THEN <<>>
        ELSE IF members[i] \in users THEN Append(kept[i - 1], members[i]) ELSE kept[i - 1]
  IN kept[Len(members)]

\* Preload("Users") leaves deleted users out.
Serving == EmployedAmong(group.members, employed)

\* The row First() finds.
RowOf(d) == IF d \in Days /\ history[d] # <<>> THEN Head(history[d]) ELSE NoUser

Index(members, u) == CHOOSE i \in DOMAIN members : members[i] = u

\* The rows of a range of days that are his, all of them: a day and the place in it.
RowsOf(u, from, to) ==
  UNION {{d} \X {i \in DOMAIN history[d] : history[d][i] = u} : d \in {e \in Days : from <= e /\ e <= to}}
DaysOf(u, from, to) == Cardinality(RowsOf(u, from, to))

IsShiftNeededLate(u) == DaysOf(u, today - dutyMode.shiftDays, today - 1) > dutyMode.shiftDays   \* mutant

\* isShiftNeeded: the rows of the last shiftDays days that are his.
IsShiftNeeded(u) == DaysOf(u, today - dutyMode.shiftDays, today - 1) >= dutyMode.shiftDays

NextMember(members, u) == members[(Index(members, u) % Len(members)) + 1]

(***************************************************************************)
(* processOnDutyHistoryForGroup.                                           *)
(***************************************************************************)
DutySame == UNCHANGED <<dutyMode, today, group, employed, change>>
DutyGoTo(g, pc) == fill' = [fill EXCEPT ![g].pc = pc]
StopFill(g) == fill' = [fill EXCEPT ![g] = NoFill]

\* fetchAllEnabledGroups, filterValidGroups: the group has members.
BeginFill(g) ==
  /\ fill[g].pc = "idle"
  /\ dutyMode.overlap \/ \A h \in Fillers : fill[h].pc = "idle"
  /\ group.exists /\ Serving # <<>>
  /\ fill' = [fill EXCEPT ![g] = [NoFill EXCEPT !.pc = "look", !.members = Serving]]
  /\ DutySame /\ UNCHANGED history

LookFilledFirst(g) ==   \* mutant: a filled day is left alone, whatever changed
  /\ fill[g].pc = "look"
  /\ IF RowOf(today) # NoUser THEN StopFill(g)
     ELSE fill' = [fill EXCEPT ![g] = [@ EXCEPT !.day = today, !.user = change[today],
                     !.pc = IF change[today] # NoUser THEN "check" ELSE "decide"]]
  /\ DutySame /\ UNCHANGED history

\* A change of today overrides; a day that is filled already is left alone otherwise.
Look(g) ==
  /\ fill[g].pc = "look"
  /\ IF change[today] # NoUser
     THEN fill' = [fill EXCEPT ![g] = [@ EXCEPT !.pc = "check", !.day = today, !.user = change[today]]]
     ELSE IF RowOf(today) # NoUser
     THEN StopFill(g)
     ELSE fill' = [fill EXCEPT ![g] = [@ EXCEPT !.pc = "decide", !.day = today]]
  /\ DutySame /\ UNCHANGED history

\* After yesterday's person, or from the first member when there is none.
Decide(g) ==
  LET members == fill[g].members
      last == RowOf(today - 1)
      user == IF last = NoUser \/ last \notin Range(members) THEN members[1]
              ELSE IF IsShiftNeeded(last) THEN NextMember(members, last) ELSE last
  IN
  /\ fill[g].pc = "decide"
  /\ fill' = [fill EXCEPT ![g].pc = "check", ![g].user = user]
  /\ DutySame /\ UNCHANGED history

\* CreateMonitorOnDutyHistory: is there a row by now?
CheckRow(g) ==
  /\ fill[g].pc = "check"
  /\ fill' = [fill EXCEPT ![g].pc = "write", ![g].exists = RowOf(fill[g].day) # NoUser]
  /\ DutySame /\ UNCHANGED history

RowAdded(rows, user, exists) == Append(rows, user)   \* mutant: never an update

\* Every row of the day is updated, or one is created: no index makes it unique.
RowsWith(rows, user, exists) ==
  IF exists THEN [i \in DOMAIN rows |-> user] ELSE Append(rows, user)

WriteRow(g) ==
  LET d == fill[g].day IN
  /\ fill[g].pc = "write"
  /\ history' = [history EXCEPT ![d] = RowsWith(@, fill[g].user, fill[g].exists)]
  /\ StopFill(g)
  /\ DutySame

FillStep(g) == Look(g) \/ Decide(g) \/ CheckRow(g) \/ WriteRow(g)

(***************************************************************************)
(* The API, and time.                                                      *)
(***************************************************************************)
\* CreateMonitorOnDutyGroupChange; a later change of the same day comes after it.
CreateChange(d, u) ==
  /\ dutyMode.changes
  /\ group.exists /\ d \in today..dutyMode.days
  /\ change' = [change EXCEPT ![d] = u]
  /\ UNCHANGED <<dutyMode, today, group, employed, history, fill>>

\* UpdateMonitorOnDutyGroup: all the members given exist.
UpdateGroup(members) ==
  /\ dutyMode.edits /\ group.exists
  /\ Range(members) \subseteq employed
  /\ group' = [group EXCEPT !.members = members]
  /\ UNCHANGED <<dutyMode, today, employed, history, change, fill>>

\* DeleteMonitorOnDutyGroup, with its history and its changes.
DeleteGroup ==
  /\ dutyMode.edits /\ group.exists
  /\ group' = [group EXCEPT !.exists = FALSE]
  /\ history' = [d \in Days |-> <<>>]
  /\ change' = [d \in Days |-> NoUser]
  /\ UNCHANGED <<dutyMode, today, employed, fill>>

DeleteUser(u) ==
  /\ dutyMode.edits /\ u \in employed
  /\ employed' = employed \ {u}
  /\ UNCHANGED <<dutyMode, today, group, history, change, fill>>

NextDay ==
  /\ today < dutyMode.days /\ today' = today + 1
  /\ dutyMode.midnight \/ \A g \in Fillers : fill[g].pc = "idle"
  /\ dutyMode.gaps \/ RowOf(today) # NoUser
  /\ UNCHANGED <<dutyMode, group, employed, history, change, fill>>

DutyNext ==
  \/ \E g \in Fillers : BeginFill(g) \/ FillStep(g)
  \/ \E d \in Days, u \in Members : CreateChange(d, u)
  \/ \E m \in Rosters : UpdateGroup(m)
  \/ DeleteGroup
  \/ \E u \in Members : DeleteUser(u)
  \/ NextDay

DutySpec == DutyInit /\ [][DutyNext]_dutyVars

\* Some goroutine fills, again and again.
DutyStep == \E g \in Fillers : BeginFill(g) \/ FillStep(g)
DutyFairness == WF_dutyVars(DutyStep)

(***************************************************************************)
(* Who is on duty, by the API and by the webhook.                          *)
(***************************************************************************)
\* getCurrentUserIndex, calculateDutyUser: today is taken for the first day of a shift.
IndexOn(d) == IF RowOf(d) \in Range(Serving) THEN Index(Serving, RowOf(d)) - 1 ELSE 0

Plan(from, d) ==
  Serving[(((IndexOn(from) * dutyMode.shiftDays + d - from) % (Len(Serving) * dutyMode.shiftDays))
           \div dutyMode.shiftDays) + 1]

FirstOf(s) == IF s = <<>> THEN NoUser ELSE Head(s)

\* getTodayDutyUser
ShownToday ==
  IF RowOf(today) \in employed THEN RowOf(today)
  ELSE IF change[today] \in employed THEN change[today]
  ELSE IF Serving = <<>> THEN NoUser ELSE Plan(today, today)

PagedByRow ==   \* mutant: the row's user is not looked up
  IF RowOf(today) # NoUser THEN RowOf(today) ELSE FirstOf(Serving)

\* FillTodayOnDutyUser of the webhook
PagedToday == IF RowOf(today) \in employed THEN RowOf(today) ELSE FirstOf(Serving)

(***************************************************************************)
(* Properties.                                                             *)
(***************************************************************************)
\* Type invariant of the rota (rows of the group, its history and changes, the fillings).
DutyTypeOK ==
  /\ today \in Days
  /\ group \in [members : Rosters, exists : BOOLEAN] /\ employed \subseteq Members
  /\ history \in [Days -> Seq(Members)]
  /\ change \in [Days -> Members \cup {NoUser}]
  /\ \A g \in Fillers :
       /\ fill[g].pc \in {"idle", "look", "decide", "check", "write"}
       /\ fill[g].day \in 1..today /\ fill[g].members \in Seq(Members)
       /\ fill[g].pc \in {"check", "write"} => fill[g].user \in Members

Undisturbed == ~dutyMode.overlap /\ ~dutyMode.midnight /\ ~dutyMode.gaps /\ ~dutyMode.changes /\ ~dutyMode.edits
Filled(d) == history[d] # <<>>

\* Undisturbed, the members are on duty in their order, each for exactly shiftDays
\* days: the rule by yesterday's row and by counting the rows of the last days
\* (processOnDutyHistoryForGroup, isShiftNeeded) is the round robin.
RotaIsRoundRobin ==
  Undisturbed =>
    \A d \in Days :
      Filled(d) => history[d] = << Serving[(((d - 1) \div dutyMode.shiftDays) % Len(Serving)) + 1] >>

\* Seen from the first day of a shift, the plan of the API comes true: calculateDutyUser
\* and the filling agree on every later day.  (From another day of a shift it is off by
\* the days already served.)
PlanComesTrue ==
  Undisturbed =>
    \A from, d \in Days :
      from <= d /\ (from - 1) % dutyMode.shiftDays = 0 /\ Filled(from) /\ Filled(d) =>
        Plan(from, d) = RowOf(d)

\* The webhook pages whom the API shows, whatever is edited, missed or overlaps, except
\* on a day whose change has not been filled in: two codes, one rule.
ShownIsPaged ==
  group.exists /\ (change[today] = NoUser \/ RowOf(today) \in employed) => PagedToday = ShownToday

\* Three codes, one rota: the filling, the plan of the API, and the webhook.
RotaCodesAgree == PlanComesTrue /\ ShownIsPaged

\* A day has one row as long as the fillings do not overlap, whatever is edited, deleted or
\* missed meanwhile (the check in CreateMonitorOnDutyHistory is not atomic with the insert,
\* and a second row makes a member's shift end early).
OneRowADay == ~dutyMode.overlap => \A d \in Days : Len(history[d]) <= 1

\* A change of today is filled in while it is today, also into a row that is there
\* already (unless it is changed again, the group is edited, or the day ends).
ChangeIsApplied ==
  \A u \in Members :
    (change[today] = u /\ ~dutyMode.edits) ~> (RowOf(today) = u \/ change[today] # u)
====
