---------------------------- MODULE ViewSwitching ----------------------------
(***************************************************************************)
(* What is on the compositor's screen while the user switches between      *)
(* running applications and calls for the on-screen keyboard: the animated *)
(* views (AppView) with showInstance(), toggleLauncher(), showOSK() and    *)
(* toggleOSK(), all run by the main loop.  Every instance has drawn its    *)
(* first frame, as has the keyboard.                                       *)
(*                                                                         *)
(* A view has an opacity, which stands for its zoom too, and a place: its  *)
(* home, lifted above it, or in between.  The keyboard's home is below the *)
(* screen.  Calls may come between any two frames of an animation.         *)
(***************************************************************************)
EXTENDS Naturals, FiniteSets

CONSTANTS
    Apps, Home,    \* the instances and the launcher, one of them
    Keyboard, None,
    KeyboardUsers  \* applications that ask for the keyboard

ViewsAssumption ==
    /\ Home \in Apps /\ KeyboardUsers \subseteq Apps
    /\ None \notin Apps /\ Keyboard \notin Apps

Views == Apps \cup {Keyboard}

VARIABLES
    view,          \* the AppView of each instance
    currentApp, previousApp,
    oskTarget,     \* _oskTargetPID
    oskCovers,     \* _oskTargetRect is below the top of the keyboard
    broughtUpFor,  \* a history: the last one that the keyboard came up for
    showProps, hideProps   \* settings: is the opacity animated

settings == <<showProps, hideProps>>
compositor == <<currentApp, previousApp, oskTarget, oskCovers, broughtUpFor, settings>>
vars == <<view, compositor>>

Still == [opacity |-> "off", place |-> "off"]

NewView == [visible |-> FALSE, flags |-> {}, opacity |-> "full", place |-> "home",
            tween |-> Still, moving |-> FALSE]

ShownView == [NewView EXCEPT !.visible = TRUE, !.flags = {"showing"}]

Init ==
    /\ showProps \in BOOLEAN /\ hideProps \in BOOLEAN
    /\ view = [a \in Views |-> IF a = Home THEN ShownView ELSE NewView]
    /\ currentApp = Home /\ previousApp = None
    /\ oskTarget = None /\ oskCovers = FALSE /\ broughtUpFor = None

-----------------------------------------------------------------------------
(* AppView: a view with a place to go to, "off" if the place is not among  *)
(* the animated properties.                                                *)
Towards(v, p) == IF p = v.place THEN "off" ELSE p

Tweens(v, fade, p, end) ==
    [opacity |-> IF fade THEN end ELSE "off", place |-> Towards(v, p)]

(* show(): without animation the flag AnimShowing stays.                   *)
shown(v, fade, p) ==
    LET t == Tweens(v, fade, p, "full") IN
    IF "showing" \in v.flags THEN v
    ELSE [v EXCEPT !.visible = TRUE, !.flags = {"showing"}, !.tween = t,
                   !.opacity = IF fade THEN "clear" ELSE "full",
                   !.moving = t # Still]

(* hide()                                                                  *)
hidden(v, fade, p) ==
    LET t == Tweens(v, fade, p, "clear") IN
    IF "hiding" \in v.flags THEN v
    ELSE [v EXCEPT !.visible = @ /\ t # Still, !.tween = t, !.moving = t # Still,
                   !.flags = {"hiding", "hideWhenDone"},
                   !.opacity = IF fade THEN "full" ELSE @]

(* slideTo(), refused while either flag is set.                            *)
slid(v, p) ==
    LET t == [opacity |-> "off", place |-> Towards(v, p)] IN
    IF {"showing", "hiding"} \cap v.flags # {} THEN v
    ELSE [v EXCEPT !.tween = t, !.moving = t # Still]

(* A frame of the animation: tweenSlot().                                  *)
tweenSlot(a) ==
    /\ view[a].moving
    /\ view' = [view EXCEPT
                   ![a].opacity = IF view[a].tween.opacity = "off" THEN @ ELSE "part",
                   ![a].place = IF view[a].tween.place = "off" THEN @ ELSE "between"]
    /\ UNCHANGED compositor

(* Its end: the tweens are finished, then tweenEndSlot().                  *)
Finish(a) ==
    LET v == view[a] IN
    /\ v.moving
    /\ view' = [view EXCEPT
          ![a].opacity = IF v.tween.opacity = "off" THEN @ ELSE v.tween.opacity,
          ![a].place = IF v.tween.place = "off" THEN @ ELSE v.tween.place,
          ![a].visible = @ /\ "hideWhenDone" \notin v.flags,
          ![a].flags = @ \ {"showing", "hiding"},
          ![a].moving = FALSE]
    /\ UNCHANGED compositor

-----------------------------------------------------------------------------
(* The compositor.  With the keyboard on the screen the application that   *)
(* is left goes home as it hides.                                          *)
keyboardUp == view[Keyboard].visible

(* Mutant: the keyboard stays.                                             *)
switchedKeepingKeyboard(a) ==
    [b \in Views |->
        CASE b = a -> shown(view[b], showProps, view[b].place)
          [] b = currentApp -> hidden(view[b], hideProps,
                                      IF keyboardUp THEN "home" ELSE view[b].place)
          [] OTHER -> view[b]]

switched(a) ==
    [b \in Views |->
        CASE b = a -> shown(view[b], showProps, view[b].place)
          [] b = currentApp -> hidden(view[b], hideProps,
                                      IF keyboardUp THEN "home" ELSE view[b].place)
          [] b = Keyboard /\ keyboardUp -> hidden(view[b], FALSE, "home")
          [] OTHER -> view[b]]

showInstance(a) ==
    /\ a # currentApp
    /\ previousApp' = currentApp /\ currentApp' = a
    /\ view' = switched(a)
    /\ UNCHANGED <<oskTarget, oskCovers, broughtUpFor, settings>>

toggleLauncher(show) ==
    IF show THEN showInstance(Home)
    ELSE previousApp # None /\ showInstance(previousApp)

(* showOSK(), for an input that the keyboard would cover or not; nothing   *)
(* moves if the application is in the background.                          *)
showOSK(a, covered) ==
    /\ oskTarget' = a /\ oskCovers' = covered
    /\ broughtUpFor' = IF a # currentApp THEN broughtUpFor ELSE a
    /\ view' = IF a # currentApp THEN view
               ELSE [view EXCEPT ![a] = slid(@, IF covered THEN "lifted" ELSE "home"),
                                 ![Keyboard] = shown(@, FALSE, "lifted")]
    /\ UNCHANGED <<currentApp, previousApp, settings>>

(* toggleOSK(false): HideOSK of any application, and the switcher.         *)
hideOSK ==
    /\ currentApp = oskTarget
    /\ view' = [view EXCEPT ![currentApp] = slid(@, "home"),
                            ![Keyboard] = hidden(@, FALSE, "home")]
    /\ oskTarget' = None
    /\ UNCHANGED <<currentApp, previousApp, oskCovers, broughtUpFor, settings>>

(* The settings are changed by a Coma call (CompositorComponent).          *)
changeSettings ==
    /\ showProps' \in BOOLEAN /\ hideProps' \in BOOLEAN
    /\ UNCHANGED <<view, currentApp, previousApp, oskTarget, oskCovers, broughtUpFor>>

Plays(a) == tweenSlot(a) \/ Finish(a)

Next ==
    \/ \E a \in Apps : showInstance(a)
    \/ \E show \in BOOLEAN : toggleLauncher(show)
    \/ \E a \in KeyboardUsers, covered \in BOOLEAN : showOSK(a, covered)
    \/ hideOSK \/ changeSettings
    \/ \E a \in Views : Plays(a)

Spec == Init /\ [][Next]_vars

-----------------------------------------------------------------------------
View == [visible : BOOLEAN, flags : SUBSET {"showing", "hiding", "hideWhenDone"},
         opacity : {"clear", "part", "full"}, place : {"home", "between", "lifted"},
         tween : [opacity : {"off", "clear", "full"},
                  place : {"off", "home", "lifted"}],
         moving : BOOLEAN]

TypeOK ==
    /\ \A a \in Views : view[a] \in View /\ ~ (view[a].moving /\ view[a].tween = Still)
    /\ currentApp \in Apps /\ previousApp \in Apps \cup {None}
    /\ {oskTarget, broughtUpFor} \subseteq KeyboardUsers \cup {None}
    /\ {oskCovers, showProps, hideProps} \subseteq BOOLEAN

AtRest(a) == ~ view[a].moving

(* However the switches interrupt each other's animations, what is left on *)
(* the screen when they end is the current application, and it is there.   *)
CurrentIsOnScreen ==
    \A a \in Apps : AtRest(a) => (view[a].visible <=> a = currentApp)

(* A view that has come to rest on the screen is opaque and in full size,  *)
(* although the settings may have changed since it was hidden.             *)
ShownIsWhole ==
    \A a \in Views : AtRest(a) /\ view[a].visible => view[a].opacity = "full"

(* Unless it is on its way out, the keyboard is on the screen only over    *)
(* the application that it came up for, and some application is its        *)
(* target: that one, if no other uses the keyboard.  A request of another  *)
(* one, made from the background meanwhile, takes the target over.         *)
KeyboardHasTarget ==
    view[Keyboard].visible /\ "hiding" \notin view[Keyboard].flags =>
        currentApp = broughtUpFor /\ {broughtUpFor, oskTarget} \subseteq KeyboardUsers

=============================================================================
