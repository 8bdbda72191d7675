------------------------------- MODULE ModLoader -------------------------------
(***************************************************************************)
(* The page's mod loader (86_js_mod_loader.js) and the loading of          *)
(* installed packages (86b_js_mod_packages.js): the boot, the topological  *)
(* sort, the broker's pins, the per-browser choices, the enable and        *)
(* disable cascades, registrations that arrive late and the re-ask after a *)
(* login.                                                                  *)
(*                                                                         *)
(* A mod's init is synchronous and so is every cascade: a step is the      *)
(* page's code from one await, event or click to the next.  A package's    *)
(* scripts are two steps or more, those that register and the end of the   *)
(* chain.  localStorage is this page's alone: no other tab is modelled.    *)
(* The broker is what /info answers with: pins, catalog, master gate.      *)
(***************************************************************************)
EXTENDS Naturals, Sequences, SequencesExt, FiniteSets, FiniteSetsExt

CONSTANTS
    Shipped,        \* the shipped mods in _MODS order
    Installed,      \* the installed packages
    Graphs,         \* what the mods may require of each other
    DefaultOn,      \* mods whose declared default is on
    Unmet,          \* mods that need a ctx surface this build lacks
    MayThrow,       \* mods whose init may throw
    Policies,       \* the pins an operator may set
    Masters,        \* the master gate's values
    Kept,        \* the toggles a browser may arrive with
    Declares,       \* what a package's script may register
    Logins,         \* calls of notifyModsHostAuth for this broker
    MaxClicks, MaxOps       \* bounds

ShippedSet == ToSet(Shipped)
Mods == ShippedSet \cup Installed
Pins == UNION {[S -> BOOLEAN] : S \in SUBSET Mods}

LoaderAssumption ==
    /\ IsInjective(Shipped) /\ ShippedSet \cap Installed = {}
    /\ Graphs \subseteq [Mods -> SUBSET Mods]
    /\ DefaultOn \cup Unmet \cup MayThrow \subseteq Mods
    /\ Policies \subseteq Pins /\ Kept \subseteq SUBSET Mods
    /\ Declares \subseteq [pkg : Installed, id : Mods, attributed : BOOLEAN]
    /\ Masters \subseteq BOOLEAN /\ MaxClicks \in Nat /\ MaxOps \in Nat

VARIABLES
    requires,   \* the mods' declared dependencies
    served,     \* what the broker's /info answers with
    phase,      \* how far loadMods is
    regs,       \* __mods.registered
      \* cycleState: what the last sort could not place
    run,        \* active slots, consent, last failures, early teardowns
    toggled,    \* localStorage: the ids toggled away from their default
    pol,        \* policy, policyRaw, policyAuthoritative, catalog, master
    pkg,        \* each package's load record
    asked,      \* requested
    login,      \* each login's progress
    clicks,     \* the operator's clicks: how many, and the last one's mod
    ops,        \* the operator's changes at the broker
    executed    \* history: how often each package's chain was started

vars == <<requires, served, phase, regs, run, toggled, pol, pkg,
          asked, login, clicks, ops, executed>>

NoPins == [m \in {} |-> TRUE]
States == {"none", "loading", "loaded", "fetch-failed", "timeout", "wrong-id"}

Init ==
    /\ requires \in Graphs
    /\ served \in [policy : Policies, catalog : SUBSET Installed, master : Masters]
    /\ phase = "start" /\ regs = Shipped
    /\ run = [active |-> {}, byUser |-> {}, threw |-> {}, early |-> {}]
    /\ toggled \in Kept
    /\ pol = [pins |-> NoPins, raw |-> NoPins, auth |-> FALSE, catalog |-> {},
              master |-> TRUE]
    /\ pkg = [p \in Installed |-> [state |-> "none", done |-> FALSE]]
    /\ asked = {}
    /\ login = [l \in Logins |-> [at |-> "idle", started |-> {}]]
    /\ clicks = [n |-> 0, id |-> "none"] /\ ops = 0
    /\ executed = [p \in Installed |-> 0]

-----------------------------------------------------------------------------
(* Dependency order.                                                       *)

\* Edges among what is registered; a dependency that is not is no edge.
EdgesOf(rs) == [m \in ToSet(rs) |-> requires[m] \cap ToSet(rs)]

\* Kahn's order, the lowest index first among the ready.
Kahn(rs) ==
    LET edges == EdgesOf(rs)
        Ready(out) == {i \in DOMAIN rs : rs[i] \notin ToSet(out)
                                         /\ edges[rs[i]] \subseteq ToSet(out)}
        order[n \in 0 .. Len(rs)] ==
            IF n = 0 THEN <<>>
            ELSE LET out == order[n - 1] IN
                 IF Ready(out) = {} THEN out ELSE Append(out, rs[Min(Ready(out))])
    IN  order[Len(rs)]

\* Everything a set of mods reaches through its edges.
Reach(S, edges) ==
    LET grow[n \in 0 .. Cardinality(DOMAIN edges)] ==
            IF n = 0 THEN UNION {edges[m] : m \in S}
            ELSE grow[n - 1] \cup UNION {edges[m] : m \in grow[n - 1]}
    IN  grow[Cardinality(DOMAIN edges)]

\* What Kahn's algorithm leaves is what a cycle holds back.
Residual(rs) == ToSet(rs) \ ToSet(Kahn(rs))
CycleMembers(rs) == {m \in Residual(rs) : m \in Reach({m}, EdgesOf(rs))}

\* What could not be placed keeps its order and goes last.
TopoSort(rs) == Kahn(rs) \o SelectSeq(rs, LAMBDA m : m \in Residual(rs))

-----------------------------------------------------------------------------
(* Pins and choices.                                                       *)

\* An explicit pin wins; pinned on, a mod's dependencies are pinned on too.
ResolvePins(raw, rs) ==
    LET known == ToSet(rs)
        explicit == DOMAIN raw \cap known
        Imply(m, on) == IF m \in on THEN on \cup ((requires[m] \cap known) \ explicit)
                        ELSE on
        on == FoldRight(Imply, rs, {m \in explicit : raw[m]})
    IN  [m \in explicit \cup on |-> m \in on]

\* The declared default, but for an installed mod the catalog's, which is off.
Default(m) == m \in DefaultOn \ (Installed \cap pol.catalog)

\* A pin outranks the browser's choice, which is a toggle away from the default.
Enabled(m, pins, tog) ==
    IF m \in DOMAIN pins THEN pins[m] ELSE Default(m) # (m \in tog)

-----------------------------------------------------------------------------
(* Init, teardown and their cascades, over the record run.  v is what the  *)
(* step sees: registration order, pins, toggles, cycle members, and the    *)
(* mods whose init throws now.                                             *)

View(rs, pins, tog, bad) ==
    [rs |-> rs, pins |-> pins, tog |-> tog, cyc |-> CycleMembers(rs), bad |-> bad]

\* A mod is refused while it is active, in a cycle or short of a dependency.
Refused(r, m, v) == m \in r.active \/ m \in v.cyc \/ ~(requires[m] \subseteq r.active)

InitMod(r, m, byUser, v) ==
    IF Refused(r, m, v) \/ m \in Unmet THEN r
    ELSE IF m \in v.bad THEN [r EXCEPT !.threw = @ \cup {m}]
    ELSE [r EXCEPT !.active = @ \cup {m}, !.threw = @ \ {m},
                   !.byUser = IF byUser THEN @ \cup {m} ELSE @]

\* disableMod(): early remembers a mod torn down under an active dependent.
DisableMod(r, m) ==
    IF m \notin r.active THEN r
    ELSE [r EXCEPT !.active = @ \ {m}, !.byUser = @ \ {m},
                   !.early = IF \E d \in r.active \ {m} : m \in requires[d]
                             THEN @ \cup {m} ELSE @]

\* The mods after m, in order.
Behind(m, rs) == Tail(SubSeq(rs, CHOOSE i \in DOMAIN rs : rs[i] = m, Len(rs)))

\* What a pass over the mods behind m brings up.
Unblocked(acc, d, v) ==
    /\ d \notin acc.active /\ Enabled(d, v.pins, v.tog)
    /\ requires[d] # {} /\ requires[d] \subseteq acc.active

\* The mod and then, in one forward pass, whatever it unblocks.
BringUp(r, m, byUser, v) ==
    FoldLeft(LAMBDA acc, d : IF Unblocked(acc, d, v) THEN InitMod(acc, d, FALSE, v) ELSE acc,
             InitMod(r, m, byUser, v), Behind(m, v.rs))

\* The active mods that depend on m, found in one forward pass.
Doomed(r, m, rs) ==
    FoldLeft(LAMBDA acc, d : IF d \in r.active /\ requires[d] \cap acc # {}
                             THEN acc \cup {d} ELSE acc, {m}, rs) \ {m}

\* Dependents in registration order.
TakeDownForward(r, m, rs) ==
    LET doomed == Doomed(r, m, rs) IN
    DisableMod(FoldLeft(LAMBDA acc, d : IF d \in doomed THEN DisableMod(acc, d) ELSE acc,
                        r, rs), m)

\* The dependents go first, in reverse order, and the mod itself last.
TakeDown(r, m, rs) ==
    LET doomed == Doomed(r, m, rs) IN
    DisableMod(FoldRight(LAMBDA d, acc : IF d \in doomed THEN DisableMod(acc, d) ELSE acc,
                         rs, r), m)

\* The bring-ups of a reconcile.
BringUps(r, v) ==
    FoldLeft(LAMBDA acc, m : IF m \notin acc.active /\ Enabled(m, v.pins, v.tog)
                             THEN BringUp(acc, m, FALSE, v) ELSE acc, r, v.rs)

\* Every mod as the policy now says: teardowns backwards, then bring-ups.
ApplyPolicy(r, v) ==
    BringUps(FoldRight(LAMBDA m, acc : IF m \in acc.active /\ ~Enabled(m, v.pins, v.tog)
                                       THEN TakeDown(acc, m, v.rs) ELSE acc, v.rs, r), v)

-----------------------------------------------------------------------------
(* Packages.                                                               *)

\* The packages of a catalog that are still to be settled are asked for, and
\* a script the page already injected is not injected again.
ToStart(catalog) == {p \in catalog : ~pkg[p].done}
Injected(catalog) == {p \in ToStart(catalog) : pkg[p].state = "none"}

\* The packages of the catalogue are injected once each.
StartPackages(catalog) ==
    /\ asked' = asked \cup ToStart(catalog)
    /\ pkg' = [p \in Installed |-> IF p \in ToStart(catalog) /\ pkg[p].state = "none"
                                   THEN [pkg[p] EXCEPT !.state = "loading"] ELSE pkg[p]]
    /\ executed' = [p \in Installed |-> IF p \in Injected(catalog)
                                        THEN executed[p] + 1 ELSE executed[p]]

\* The wait is over: every started package has settled, or the deadline passes.
WaitOver(started) ==
    pkg' = [p \in Installed |-> IF p \in started /\ ~pkg[p].done
                                THEN [pkg[p] EXCEPT !.state = "timeout"] ELSE pkg[p]]

-----------------------------------------------------------------------------
(* The boot.                                                               *)

\* ?nomods=1, or the start of the /info request.
BootStart ==
    /\ phase = "start"
    /\ \/ phase' = "info" /\ UNCHANGED pol
       \/ phase' = "off" /\ pol' = [pol EXCEPT !.master = FALSE]
    /\ UNCHANGED <<requires, served, regs, run, toggled, pkg, asked,
                   login, clicks, ops, executed>>

\* /info answers; the master gate stops the boot before any package.
BootInfo ==
    /\ phase = "info"
    /\ pol' = [pol EXCEPT !.raw = served.policy, !.auth = TRUE,
                          !.catalog = served.catalog, !.master = served.master]
    /\ phase' = IF served.master THEN "loading" ELSE "off"
    /\ IF served.master THEN StartPackages(served.catalog)
       ELSE UNCHANGED <<asked, pkg, executed>>
    /\ UNCHANGED <<requires, served, regs, run, toggled, login, clicks, ops>>

\* /info fails, or the broker wants a token: the boot goes on without it.
BootInfoFails ==
    /\ phase = "info" /\ phase' = "loading"
    /\ UNCHANGED <<requires, served, regs, run, toggled, pol, pkg,
                   asked, login, clicks, ops, executed>>

\* Kept for what has registered.
PrunedRegistered(rs) == IF pol.auth THEN toggled \cap ToSet(rs) ELSE toggled

\* A choice is forgotten only for a mod nobody knows, and only when /info answered.
Pruned(rs) == IF pol.auth THEN toggled \cap (ToSet(rs) \cup pol.catalog) ELSE toggled

\* The rest of loadMods: sort, pins, prune, and the forward boot loop.
BootFinish(bad) ==
    LET rs == TopoSort(regs)
        pins == ResolvePins(pol.raw, rs)
        v == View(rs, pins, Pruned(rs), bad)
    IN  /\ phase = "loading" /\ phase' = "up"
        /\ WaitOver(pol.catalog)
        /\ regs' = rs /\ toggled' = v.tog
        /\ pol' = [pol EXCEPT !.pins = pins]
        /\ run' = FoldLeft(LAMBDA acc, m : IF Enabled(m, pins, v.tog)
                                           THEN InitMod(acc, m, FALSE, v) ELSE acc,
                           run, rs)
        /\ UNCHANGED <<requires, served, asked, login, clicks, ops, executed>>

-----------------------------------------------------------------------------
(* Scripts.                                                                *)

\* _lateRegister: accepted for a requested id, then sorted, pinned, applied.
LateRegister(m, bad) ==
    LET rs == TopoSort(Append(regs, m))
        pins == ResolvePins(pol.raw, rs)
        v == View(rs, pins, toggled, bad)
    IN  IF m \notin asked THEN UNCHANGED <<regs, run, pol>>
        ELSE /\ regs' = rs /\ pol' = [pol EXCEPT !.pins = pins]
             /\ run' = IF pins # pol.pins THEN ApplyPolicy(run, v)
                       ELSE IF Enabled(m, pins, toggled) THEN BringUp(run, m, FALSE, v)
                       ELSE run

\* registerMod, called by the script of package d.pkg for the id d.id.
Register(d, bad) ==
    /\ IF d.attributed /\ d.id # d.pkg
       THEN /\ pkg' = [pkg EXCEPT ![d.pkg].state = "wrong-id"]
            /\ UNCHANGED <<regs, run, pol>>
       ELSE IF d.id \in ToSet(regs) THEN UNCHANGED <<regs, run, pol, pkg>>
       ELSE IF phase = "up"
       THEN /\ LateRegister(d.id, bad)
            /\ pkg' = IF d.id \in asked /\ pkg[d.id].state # "wrong-id"
                      THEN [pkg EXCEPT ![d.id].state = "loaded"] ELSE pkg
       ELSE regs' = Append(regs, d.id) /\ UNCHANGED <<run, pol, pkg>>

\* A script of an injected package runs, whenever it arrives.
RunScript(d, bad) ==
    /\ phase \in {"loading", "up"} /\ executed[d.pkg] > 0 /\ ~pkg[d.pkg].done
    /\ Register(d, bad)
    /\ UNCHANGED <<requires, served, phase, toggled, asked, login, clicks, ops, executed>>

\* The last script of a package has loaded, or one of them failed.
ChainEnds(p, ok) ==
    /\ executed[p] > 0 /\ ~pkg[p].done
    /\ pkg' = [pkg EXCEPT ![p] =
                 [state |-> IF @.state = "wrong-id" THEN @.state
                            ELSE IF ok THEN "loaded" ELSE "fetch-failed",
                  done |-> TRUE]]
    /\ UNCHANGED <<requires, served, phase, regs, run, toggled, pol,
                   asked, login, clicks, ops, executed>>

-----------------------------------------------------------------------------
(* Clicks and logins.                                                      *)

\* The checkbox of the Mods pane; a pinned mod refuses it.
SetModEnabled(m, on, bad) ==
    LET tog == IF on = Default(m) THEN toggled \ {m} ELSE toggled \cup {m}
        v == View(regs, pol.pins, tog, bad)
    IN  /\ phase = "up" /\ m \in ToSet(regs) /\ m \notin DOMAIN pol.pins
        /\ clicks.n < MaxClicks /\ clicks' = [n |-> clicks.n + 1, id |-> m]
        /\ toggled' = tog
        /\ run' = IF on THEN BringUp(run, m, TRUE, v) ELSE TakeDown(run, m, regs)
        /\ UNCHANGED <<requires, served, phase, regs, pol, pkg, asked, login,
                       ops, executed>>

\* A login this page may have to re-ask the policy for.
MayAsk == phase = "up" /\ ~pol.auth
LoginAsks(l) ==
    /\ MayAsk /\ login[l].at = "idle"
    /\ login' = [login EXCEPT ![l].at = "info"]
    /\ UNCHANGED <<requires, served, phase, regs, run, toggled, pol, pkg, asked,
                   clicks, ops, executed>>

\* Its /info answers: the policy is authoritative, and the packages a boot
\* without a token never saw are loaded.
LoginInfo(l) ==
    /\ login[l].at = "info"
    /\ IF served.master
       THEN /\ login' = [login EXCEPT ![l] = [at |-> "loading",
                                              started |-> ToStart(served.catalog)]]
            /\ pol' = [pol EXCEPT !.auth = TRUE, !.raw = served.policy,
                                  !.catalog = served.catalog]
            /\ StartPackages(served.catalog)
       ELSE /\ login' = [login EXCEPT ![l].at = "over"]
            /\ pol' = [pol EXCEPT !.auth = TRUE]
            /\ UNCHANGED <<asked, pkg, executed>>
    /\ UNCHANGED <<requires, served, phase, regs, run, toggled, clicks, ops>>

\* Or it fails; the next login asks again.
LoginInfoFails(l) ==
    /\ login[l].at = "info" /\ login' = [login EXCEPT ![l].at = "idle"]
    /\ UNCHANGED <<requires, served, phase, regs, run, toggled, pol, pkg, asked,
                   clicks, ops, executed>>

\* The rest of notifyModsHostAuth, once its packages have been waited for.
LoginApplies(l, bad) ==
    LET rs == TopoSort(regs)
        pins == ResolvePins(pol.raw, rs)
    IN  /\ login[l].at = "loading"
        /\ WaitOver(login[l].started)
        /\ login' = [login EXCEPT ![l] = [at |-> "over", started |-> {}]]
        /\ regs' = rs /\ pol' = [pol EXCEPT !.pins = pins]
        /\ run' = ApplyPolicy(run, View(rs, pins, toggled, bad))
        /\ UNCHANGED <<requires, served, phase, toggled, asked, clicks, ops, executed>>

\* An operator changes what the broker serves.
OperatorChanges ==
    /\ ops < MaxOps /\ ops' = ops + 1
    /\ \E p \in Policies, c \in SUBSET Installed, m \in Masters :
         served' = [policy |-> p, catalog |-> c, master |-> m]
    /\ UNCHANGED <<requires, phase, regs, run, toggled, pol, pkg, asked, login,
                   clicks, executed>>

Next ==
    \/ BootStart \/ BootInfo \/ BootInfoFails
    \/ \E bad \in SUBSET MayThrow :
         \/ BootFinish(bad)
         \/ \E d \in Declares : RunScript(d, bad)
         \/ \E m \in Mods, on \in BOOLEAN : SetModEnabled(m, on, bad)
         \/ \E l \in Logins : LoginApplies(l, bad)
    \/ \E p \in Installed, ok \in BOOLEAN : ChainEnds(p, ok)
    \/ \E l \in Logins : LoginAsks(l) \/ LoginInfo(l) \/ LoginInfoFails(l)
    \/ OperatorChanges

Spec == Init /\ [][Next]_vars

-----------------------------------------------------------------------------
(* Properties.                                                             *)

\* Every variable stays within the records the loader keeps.
TypeOK ==
    /\ requires \in Graphs /\ toggled \subseteq Mods /\ asked \subseteq Installed
    /\ served \in [policy : Policies, catalog : SUBSET Installed, master : BOOLEAN]
    /\ phase \in {"start", "info", "loading", "up", "off"}
    /\ IsInjective(regs) /\ ToSet(regs) \subseteq Mods
    /\ DOMAIN run = {"active", "byUser", "threw", "early"}
    /\ \A f \in DOMAIN run : run[f] \subseteq Mods
    /\ pol.pins \in Pins /\ pol.raw \in Pins /\ pol.catalog \subseteq Installed
    /\ pkg \in [Installed -> [state : States, done : BOOLEAN]]
    /\ \A l \in Logins : login[l].at \in {"idle", "info", "loading", "over"}
    /\ clicks.n \in 0 .. MaxClicks /\ ops \in 0 .. MaxOps
    /\ executed \in [Installed -> Nat]

\* No mod is unloaded while an active mod still requires it (_takeDown).
TeardownsComeInOrder == run.early = {}

\* A choice made for a mod this broker ships or has installed is dropped by a
\* click alone: not by a failed boot, a package that did not load, a pin or a login.
ChoicesSurvive ==
    [][clicks' = clicks /\ ops = 0 =>
         toggled \cap (ShippedSet \cup served.catalog) \subseteq toggled']_vars

=============================================================================
