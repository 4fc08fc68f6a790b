------------------------------- MODULE Views -------------------------------
(***************************************************************************)
(* The views of the daemon (host/src/views.rs, with the verbs of            *)
(* host/src/daemon.rs that call it): a window mounts a view of a skill, the *)
(* skill serves it, and the daemon alone knows both. One skill by name is   *)
(* enough: a skill of another name meets it nowhere. A peer that is gone    *)
(* takes no frame, and the daemon hears so some time later, once for each   *)
(* life that it attached. `opened` is what each peer was told is open.      *)
(***************************************************************************)
EXTENDS FiniteSets

CONSTANTS Records, Windows, Servers,  \* the lives, and the peers that are windows and skills
          Readers,                    \* the windows that only read
          Viewers                     \* the names that windows give to views

VARIABLES
  skills,   \* Views.skills: which skill is attached to which life
  holds,    \* the windows that hold a life, as its Holders have it
  mounted,  \* Views.mounted
  gone,     \* the peers whose connection ended
  opened,   \* the views that each peer was told of, but for those it was told the end of
  astray    \* a frame reached a peer that was not told of its view, or an act one that only reads

viewVars == <<skills, holds, mounted, gone, opened, astray>>

Peers == Windows \cup Servers
Views == [viewer : Viewers, life : Records, window : Windows, skill : Servers]

TypeOK ==
  /\ skills \subseteq Records \X Servers /\ holds \subseteq Records \X Windows
  /\ mounted \subseteq Views /\ gone \subseteq Peers /\ opened \in [Peers -> SUBSET Views]
  /\ astray \in BOOLEAN

Init ==
  /\ skills = {} /\ holds = {} /\ mounted = {} /\ gone = {} /\ opened = [p \in Peers |-> {}]
  /\ astray = FALSE

Of(p, views) == {v \in views : p \in {v.window, v.skill}}

-----------------------------------------------------------------------------
(* What peers ask of the daemon.                                            *)

\* The views that end, each told to both of its sides.
OneSided(ends)  == [p \in Peers |-> opened[p] \ {v \in ends : p = v.skill}]
BothSided(ends) == [p \in Peers |-> opened[p] \ ends]
End(ends) == mounted' = mounted \ ends /\ opened' = BothSided(ends)

\* The skill of a life comes in the place of an earlier one, whose views end, those of other lives too.
KeepsOld(life) == {}
EndsOld(life)  == {v \in mounted : <<life, v.skill>> \in skills}
Attach(life, s) ==
  /\ s \notin gone /\ End(EndsOld(life))
  /\ skills' = {one \in skills : one[1] # life} \cup {<<life, s>>}
  /\ UNCHANGED <<holds, gone, astray>>

AttachWindow(life, w) ==
  /\ w \notin gone /\ holds' = holds \cup {<<life, w>>}
  /\ UNCHANGED <<skills, mounted, gone, opened, astray>>

\* A view is mounted under a name that no view has, by a window that holds the life, once its skill
\* took the frame.
Mount(viewer, life, w) ==
  /\ w \notin gone /\ <<life, w>> \in holds /\ \A v \in mounted : v.viewer # viewer
  /\ \E s \in Servers \ gone :
       LET view == [viewer |-> viewer, life |-> life, window |-> w, skill |-> s] IN
       /\ <<life, s>> \in skills /\ mounted' = mounted \cup {view}
       /\ opened' = [p \in Peers |-> IF p \in {w, s} THEN opened[p] \cup {view} ELSE opened[p]]
  /\ UNCHANGED <<skills, holds, gone, astray>>

\* Only the window of a view ends it.
DisposeView(w, view) ==
  /\ view.window = w /\ w \notin gone /\ End({view}) /\ UNCHANGED <<skills, holds, gone, astray>>

\* A frame goes from a side of a view to the other one, and a tree inert to a window that only reads.
Alive(to, tree) == tree
Acts(to, tree)  == tree /\ to \notin Readers
Push(p, view) ==
  LET to == IF p = view.window THEN view.skill ELSE view.window IN
  /\ p \notin gone /\ p \in {view.window, view.skill} /\ to \notin gone
  /\ \E tree \in {p = view.skill, FALSE} :
       astray' = (astray \/ view \notin opened[to] \/ (to \in Readers /\ Acts(to, tree)))
  /\ UNCHANGED <<skills, holds, mounted, gone, opened>>

\* A peer that leaves a life, by its verb or as it is gone.
WindowsViews(life, p) == {v \in mounted : v.life = life /\ v.window = p}
LeftViews(life, p)    == {v \in Of(p, mounted) : v.life = life}
Left(life, p) ==
  /\ <<life, p>> \in skills \cup holds
  /\ skills' = skills \ {<<life, p>>} /\ holds' = holds \ {<<life, p>>} /\ End(LeftViews(life, p))
  /\ UNCHANGED <<gone, astray>>

Go(p) == gone' = gone \cup {p} /\ UNCHANGED <<skills, holds, mounted, opened, astray>>

\* The end of a life, which each peer of it hears as an event.
SkillsAlone(life) == skills' = {one \in skills : one[1] # life} /\ UNCHANGED mounted
AllOfIt(life)     == skills' = {one \in skills : one[1] # life} /\ mounted' = {v \in mounted : v.life # life}
Ended(life) ==
  /\ AllOfIt(life) /\ holds' = {one \in holds : one[1] # life}
  /\ opened' = [p \in Peers |-> {v \in opened[p] : v.life # life}]
  /\ UNCHANGED <<gone, astray>>

Next ==
  \/ \E life \in Records :
       \/ \E s \in Servers : Attach(life, s)
       \/ \E w \in Windows : AttachWindow(life, w) \/ \E viewer \in Viewers : Mount(viewer, life, w)
       \/ \E p \in Peers : Left(life, p)
       \/ Ended(life)
  \/ \E p \in Peers \ gone : Go(p)
  \/ \E view \in mounted : \E p \in Peers : DisposeView(p, view) \/ Push(p, view)

Spec == Init /\ [][Next]_viewVars

-----------------------------------------------------------------------------
(* Properties.                                                              *)

\* Each peer that stands was told of exactly the views that the daemon would carry its frames of.
BothSidesAgree == \A p \in Peers \ gone : opened[p] = Of(p, mounted)

\* Each view is between a window that holds its life and the skill of its life, so the daemon is
\* told when either is gone, and nothing of a peer that is gone stays then.
ViewsAreHeld ==
  \A v \in mounted : <<v.life, v.window>> \in holds /\ <<v.life, v.skill>> \in skills

\* Each frame reaches a peer that was told of its view, and no act one that only reads.
NoneAstray == ~astray

\* A name stands for one view.
OneOfEachName == \A v, u \in mounted : v.viewer = u.viewer => v = u

\* A skill attached in the place of one of a life ends the views of that skill of that life.
EndsItsOwn ==
  [][\A life \in Records, s \in Servers :
       Attach(life, s) => \A v \in mounted \ mounted' : v.life = life]_viewVars
=============================================================================
