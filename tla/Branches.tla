------------------------------ MODULE Branches ------------------------------
(***************************************************************************)
(* Branches, their sections and who stands where (the second half of        *)
(* api/src/routes/setup.ts, api/src/plugins/auth.ts, the screens            *)
(* setup-branches and users), beside the master data of Catalogue, whose    *)
(* workers also do this.  Sections are numbered as they are created, and    *)
(* "the" section of a role or "the" quarantine is the first that is open.   *)
(***************************************************************************)
EXTENDS Catalogue

CONSTANTS
    Branch,
    MaxSection \* bound: sections created

VARIABLES
    branch,   \* is_active of the branches there are
    section   \* sections there are, by number: branch, kind, active

vars == <<catalogueVars, branch, section>>

\* SECTION_KINDS: the kinds of section and the roles that belong to each.
OwnedBy == [STORE |-> {"storekeeper"}, KITCHEN |-> {"kitchen"}, CLEAN |-> {"cleaning"},
            QUARANTINE |-> {"storekeeper"}]
Kinds == DOMAIN OwnedBy
Role == {"admin", "management", "storekeeper", "kitchen", "cleaning"}

kindsOwnedBy(role) == {k \in Kinds : role \in OwnedBy[k]}

\* Management, the storekeeper and the admin run the branch and see all of it.
kindsVisibleTo(role) ==
    IF role \in {"admin", "management", "storekeeper"} THEN Kinds ELSE kindsOwnedBy(role)

Sections == DOMAIN section
\* GET /setup/branches lists every branch with these.
InBranch(b, kinds) == {s \in Sections : section[s].branch = b /\ section[s].kind \in kinds}
Open(sections) == {s \in sections : section[s].active}
First(sections) == CHOOSE s \in sections : \A t \in sections : s <= t
None == -1

sectionsOwnedBy(role, b) == InBranch(b, kindsOwnedBy(role))

\* What a role may work with: closed sections are in it, for their history.
sectionsForUser(role, b) == InBranch(b, kindsVisibleTo(role))

assertSectionAllowed(role, b, s) == s \in sectionsForUser(role, b)

quarantineSectionFor(b) ==
    LET open == Open(InBranch(b, {"QUARANTINE"})) IN IF open = {} THEN None ELSE First(open)

\* The section a role works out of: its own, or the store when it has none.
homeSectionFor(role, b) ==
    LET wanted == IF kindsOwnedBy(role) # {} THEN kindsOwnedBy(role) ELSE {"STORE"}
        open == Open(InBranch(b, wanted))
    IN IF open = {} THEN None ELSE First(open)

\* The warning on the form that adds a login: the branch has no open shelf this
\* role can stand at.
noSectionWarning(role, b) ==
    kindsOwnedBy(role) # {} /\ Open(sectionsOwnedBy(role, b)) = {}

\* The overview's list of logins with nowhere to work, and which repair they need.
usersWithNoSection ==
    LET homeless(role, b) == kindsOwnedBy(role) # {} /\ Open(sectionsOwnedBy(role, b)) = {}
        why(role, b) == IF sectionsOwnedBy(role, b) = {} THEN "never added" ELSE "switched off"
    IN {[role |-> at[1], branch |-> at[2], reason |-> why(at[1], at[2])] :
          at \in {x \in Role \X DOMAIN branch : homeless(x[1], x[2])}}

\* What the sections screen says of a kind: who can use it.
whoCanUse(kind) ==
    CASE kind = "STORE" -> {"storekeeper", "management"}
      [] kind = "CLEAN" -> {"cleaning"}
      [] kind = "QUARANTINE" -> {"storekeeper"}
      [] OTHER -> {"kitchen"}

Stores(b) == {s \in Open(Sections) : section[s].branch = b /\ section[s].kind = "STORE"}

Init ==
    /\ CatalogueInit
    /\ branch = << >>
    /\ section = << >>

NewSection(b, kind) ==
    /\ Cardinality(Sections) < MaxSection
    /\ section' = WithRow(section, Cardinality(Sections) + 1, [branch |-> b, kind |-> kind, active |-> TRUE])

\* Mutant: a branch is created and its store left for later.
AddBranchBare(b) ==
    /\ b \notin DOMAIN branch
    /\ branch' = WithRow(branch, b, TRUE)
    /\ UNCHANGED <<catalogueVars, section>>

\* POST /setup/branches: the branch comes with its main store.
AddBranch(b) ==
    /\ b \notin DOMAIN branch
    /\ branch' = WithRow(branch, b, TRUE)
    /\ NewSection(b, "STORE")
    /\ UNCHANGED catalogueVars

\* Mutant: the look for another branch finds the one that is switched off.
OtherBranchesAndThis(b) == {x \in DOMAIN branch : branch[x]}

OtherBranches(b) == {x \in DOMAIN branch \ {b} : branch[x]}

\* PATCH /setup/branches/:id: the last branch stays.
StartPatchBranch(w, b, active) ==
    /\ b \in DOMAIN branch
    /\ active = "off" => OtherBranches(b) # {}
    /\ Start(w, [op |-> "branch", pc |-> "write", about |-> DOMAIN branch, of |-> b, active |-> active])
    /\ UNCHANGED <<astray, branch, section>>

WritePatchBranch(w) ==
    LET h == handler[w] IN
    /\ h.pc = "write" /\ h.op = "branch"
    /\ branch' = [branch EXCEPT ![h.of] = Switched(h.active, @)]
    /\ Finish(w)
    /\ UNCHANGED <<tables, section>>

\* assertOneStore.
HasNoStore(b) == Stores(b) = {}

\* POST /setup/sections.
StartAddSection(w, b, kind) ==
    /\ b \in DOMAIN branch
    /\ kind = "STORE" => HasNoStore(b)
    /\ Start(w, [op |-> "section", pc |-> "insert", about |-> {}, of |-> b, kind |-> kind])
    /\ UNCHANGED <<astray, branch, section>>

WriteAddSection(w) ==
    LET h == handler[w] IN
    /\ h.pc = "insert" /\ h.op = "section"
    /\ NewSection(h.of, h.kind)
    /\ Finish(w)
    /\ UNCHANGED <<tables, branch>>

\* Mutant: the store can be switched off like any other section.
MaySwitchAny(s, active) == TRUE

\* The store stays on; how stock keeps a section open is in Rooms.
MaySwitch(s, active) ==
    /\ active = "off" => section[s].kind # "STORE"
    /\ active = "on" /\ section[s].kind = "STORE" => Stores(section[s].branch) \subseteq {s}

\* PATCH /setup/sections/:id.
StartPatchSection(w, s, active) ==
    /\ MaySwitch(s, active)
    /\ Start(w, [op |-> "switch", pc |-> "write", about |-> {}, of |-> s, active |-> active])
    /\ UNCHANGED <<astray, branch, section>>

WritePatchSection(w) ==
    LET h == handler[w] IN
    /\ h.pc = "write" /\ h.op = "switch"
    /\ section' = [section EXCEPT ![h.of].active = Switched(h.active, @)]
    /\ Finish(w)
    /\ UNCHANGED <<tables, branch>>

BranchesNext ==
    \/ \E b \in Branch : AddBranch(b)
    \/ \E w \in Worker :
        \/ \E b \in Branch, active \in {"on", "off"} : StartPatchBranch(w, b, active)
        \/ \E b \in Branch, kind \in Kinds : StartAddSection(w, b, kind)
        \/ \E s \in Sections, active \in {"on", "off"} : StartPatchSection(w, s, active)
        \/ WritePatchBranch(w) \/ WriteAddSection(w) \/ WritePatchSection(w)
        \/ Drop(w) /\ UNCHANGED <<branch, section>>

Next ==
    \/ CatalogueNext /\ UNCHANGED <<branch, section>>
    \/ BranchesNext

Spec == Init /\ [][Next]_vars

-----------------------------------------------------------------------------
\* "A branch has exactly one main store", which half the system asks for with a
\* single-row query, and its storekeeper starts there although the quarantine is
\* theirs as well.
OneStore ==
    \A b \in DOMAIN branch :
        /\ Cardinality(Stores(b)) = 1
        /\ homeSectionFor("storekeeper", b) \in Stores(b)

\* There is a branch left that is open, unless two switches overlapped.
SomeBranch ==
    DOMAIN branch = {} \/ raced \cap Branch # {} \/ \E b \in DOMAIN branch : branch[b]

\* The form that adds a login, the overview and the server agree: the two warn
\* exactly when the server would find no section for the role to work out of, and
\* whoever the server does find one for may work with that section.
WarnsWhenHomeless ==
    \A b \in DOMAIN branch, role \in Role :
        /\ noSectionWarning(role, b) <=> homeSectionFor(role, b) = None
        /\ homeSectionFor(role, b) \in sectionsForUser(role, b) \cup {None}
        /\ noSectionWarning(role, b) <=>
             \E row \in usersWithNoSection : row.role = role /\ row.branch = b

\* What the sections screen says of the quarantine is what the server lets in,
\* leaving aside those who run the branch: nobody from a kitchen.
QuarantineIsKept ==
    \A b \in DOMAIN branch, role \in Role \ {"admin", "management"} :
        assertSectionAllowed(role, b, quarantineSectionFor(b)) => role \in whoCanUse("QUARANTINE")

\* No order of creating and switching branches and sections, by two admins at
\* once, leaves a role without the place the rest of the system looks up, or lets
\* it into another's.
EveryoneHasAPlace == OneStore /\ SomeBranch /\ WarnsWhenHomeless /\ QuarantineIsKept
=============================================================================
