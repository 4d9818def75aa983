-------------------------------- MODULE Typing --------------------------------
(***************************************************************************)
(* Letters typed by tapping a key several times: the on-screen keyboard    *)
(* with the keys of a telephone, the line input of an application that has *)
(* the focus, and the queue of key events between the two processes.  Each *)
(* tap shows a letter as a selection, which the next tap replaces; another *)
(* key, a timer or the shift key makes it part of the text.  One key is    *)
(* pressed at a time; the one that deletes repeats from a thread.          *)
(***************************************************************************)
EXTENDS LineEditing, Sequences

CONSTANTS
    Keys,           \* keys with letters
    Letters,        \* letters of a key in each of the two states
    NoKey, Deletes, \* no key, and the key that deletes
    MaxLetters,     \* bound of the text that is typed
    MaxWire         \* bound of the events on their way when a key is pressed

TypingAssumption ==
    /\ {Advance, Visible, Left, MaxLetters, MaxWire} \subseteq Nat
    /\ Advance > 0 /\ Letters \in Nat \ {0} /\ MaxLength = 0
    /\ {NoKey, Deletes} \cap Keys = {} /\ NoKey # Deletes

VARIABLES
    cycleKey,       \* Keyboard::_cycleKey
    cycleCharacter, \* Keyboard::_cycleCharacter
    modifier,       \* Keyboard::_modifier is the shift key
    symbolState,    \* Key::_keyState of every key
    ticking,        \* _cycleTimer is running
    timer,          \* how far the main thread is in handleCycleTimer()
    helper,         \* how far the repeat thread is in handleCycleKey()
    wire,           \* key-down events that the application has not handled
    text,           \* what the line input holds
    meant           \* the letters that were chosen

keyVars == <<cycleKey, cycleCharacter, modifier, symbolState, ticking>>
typingVars == <<keyVars, timer, helper, wire, line, text, meant>>

Characters == Keys \X (1 .. 2) \X (1 .. Letters)

TypingInit ==
    /\ Init
    /\ cycleKey = NoKey /\ cycleCharacter = NoKey
    /\ modifier = FALSE /\ symbolState = 1
    /\ ticking = FALSE
    /\ timer = "idle" /\ helper = "idle"
    /\ wire = << >> /\ text = << >> /\ meant = << >>

-----------------------------------------------------------------------------
(* sendOSKInput() turns a call of the keyboard into events of the          *)
(* application's window; the events of releases change nothing there.      *)
ShiftRight == <<<<"shift">>, <<"right">>>>
ShiftLeft  == <<<<"shift">>, <<"left">>>>
Glyph(c)   == <<"glyph", c>>

(* getNextState() of the shift key, whose roll states are 1 and 2.         *)
getNextState == IF symbolState = 1 THEN 2 ELSE 1

(* The end of forwardKeyData().                                            *)
unsetModifier(pendingKey) ==
    IF modifier /\ symbolState = 2 /\ pendingKey = NoKey
    THEN modifier' = FALSE /\ symbolState' = getNextState
    ELSE UNCHANGED <<modifier, symbolState>>

(* The letter after the one that is shown; the same one if the state of    *)
(* the keys has changed since.                                             *)
nextCharacter(key) ==
    IF cycleCharacter[2] # symbolState THEN cycleCharacter
    ELSE <<key, symbolState, 1 + (cycleCharacter[3] % Letters)>>

mainIsFree == timer = "idle" /\ helper = "idle" /\ Len(wire) <= MaxWire

(* Mutant: the letter of another key is not made part of the text.         *)
handleCycleKeyReplaces(key) ==
    /\ mainIsFree
    /\ IF cycleKey = key
       THEN /\ cycleCharacter' = nextCharacter(key)
            /\ meant' = [meant EXCEPT ![Len(meant)] = cycleCharacter']
       ELSE /\ Len(meant) < MaxLetters
            /\ cycleCharacter' = <<key, symbolState, 1>>
            /\ meant' = Append(meant, cycleCharacter')
    /\ wire' = wire \o <<Glyph(cycleCharacter')>> \o ShiftLeft
    /\ cycleKey' = key /\ ticking' = TRUE
    /\ UNCHANGED <<modifier, symbolState, timer, helper, line, text>>

(* A key with letters.                                                     *)
handleCycleKey(key) ==
    /\ mainIsFree
    /\ IF cycleKey = key
       THEN /\ cycleCharacter' = nextCharacter(key)
            /\ meant' = [meant EXCEPT ![Len(meant)] = cycleCharacter']
       ELSE /\ Len(meant) < MaxLetters
            /\ cycleCharacter' = <<key, symbolState, 1>>
            /\ meant' = Append(meant, cycleCharacter')
    /\ wire' = wire \o (IF cycleKey \in {NoKey, key} THEN << >> ELSE ShiftRight)
                    \o <<Glyph(cycleCharacter')>> \o ShiftLeft
    /\ cycleKey' = key /\ ticking' = TRUE
    /\ UNCHANGED <<modifier, symbolState, timer, helper, line, text>>

(* The shift key: setModifier() when it is not on, then the next state.    *)
pressSlot ==
    /\ mainIsFree
    /\ symbolState' = getNextState
    /\ IF symbolState = 1
       THEN /\ wire' = wire \o (IF cycleKey = NoKey THEN << >> ELSE ShiftRight)
            /\ ticking' = (ticking /\ cycleKey = NoKey)
            /\ cycleKey' = NoKey
            /\ modifier' = TRUE
       ELSE UNCHANGED <<wire, ticking, cycleKey, modifier>>
    /\ UNCHANGED <<cycleCharacter, timer, helper, line, text, meant>>

(* handleCycleKey() of the key that deletes, in the thread that repeats it *)
(* while it is held; the timer of the main thread may come in between.     *)
HoldDelete ==
    /\ mainIsFree
    /\ helper' = IF cycleKey \in {NoKey, Deletes} THEN "choose" ELSE "accept"
    /\ UNCHANGED <<keyVars, timer, wire, line, text, meant>>

Accept ==
    /\ helper = "accept"
    /\ helper' = "choose"
    /\ wire' = wire \o ShiftRight
    /\ unsetModifier(cycleKey)
    /\ UNCHANGED <<cycleKey, cycleCharacter, ticking, timer, line, text, meant>>

Choose ==
    /\ helper = "choose"
    /\ helper' = "delete"
    /\ cycleKey' = Deletes /\ cycleCharacter' = Deletes
    /\ UNCHANGED <<modifier, symbolState, ticking, timer, wire, line, text, meant>>

Delete ==
    /\ helper = "delete"
    /\ helper' = "forget"
    /\ wire' = Append(wire, <<"back">>)
    /\ meant' = IF meant = << >> THEN meant ELSE SubSeq(meant, 1, Len(meant) - 1)
    /\ unsetModifier(cycleKey)
    /\ UNCHANGED <<cycleKey, cycleCharacter, ticking, timer, line, text>>

Forget ==
    /\ helper = "forget"
    /\ helper' = "idle"
    /\ ticking' = FALSE /\ cycleKey' = NoKey
    /\ UNCHANGED <<cycleCharacter, modifier, symbolState, timer, wire, line, text, meant>>

-----------------------------------------------------------------------------
(* handleCycleTimer(): a tap that comes before the timer chooses another   *)
(* letter, one that comes after it begins a new one.  The timer goes on,   *)
(* and finds nothing.                                                      *)
Expire ==
    /\ ticking /\ timer = "idle" /\ cycleKey # NoKey
    /\ timer' = "accept"
    /\ UNCHANGED <<keyVars, helper, wire, line, text, meant>>

AcceptLetter ==
    /\ timer = "accept"
    /\ timer' = "finish"
    /\ wire' = wire \o ShiftRight
    /\ unsetModifier(cycleKey)
    /\ UNCHANGED <<cycleKey, cycleCharacter, ticking, helper, line, text, meant>>

(* Mutant: the key stays the one whose letter is shown.                    *)
FinishLetterKeepsKey ==
    /\ timer = "finish"
    /\ timer' = "idle"
    /\ modifier' = FALSE
    /\ symbolState' = IF modifier THEN getNextState ELSE symbolState
    /\ UNCHANGED <<cycleKey, cycleCharacter, ticking, helper, wire, line, text, meant>>

FinishLetter ==
    /\ timer = "finish"
    /\ timer' = "idle"
    /\ modifier' = FALSE
    /\ symbolState' = IF modifier THEN getNextState ELSE symbolState
    /\ cycleKey' = NoKey
    /\ UNCHANGED <<cycleCharacter, ticking, helper, wire, line, text, meant>>

-----------------------------------------------------------------------------
(* The application: keyDownEvent() of the line input.  So many characters  *)
(* of its text after a place become others.                                *)
Spliced(from, n, s) == SubSeq(text, 1, from) \o s \o SubSeq(text, from + n + 1, Len(text))

HearShift(key) == key = "shift" /\ shiftKey /\ UNCHANGED text

HearLeft(key) ==
    /\ key = "left"
    /\ IF line.cursor > 0 THEN cursorLeft ELSE UNCHANGED line
    /\ UNCHANGED text

HearRight(key) ==
    /\ key = "right"
    /\ IF line.cursor < line.length THEN cursorRight ELSE UNCHANGED line
    /\ UNCHANGED text

HearBack(key) ==
    /\ key = "back"
    /\ backspaceKey
    /\ text' = IF ~ isNull(line.selection) THEN Spliced(pos1, n1, << >>)
               ELSE IF line.cursor > 0 THEN Spliced(line.cursor - 1, 1, << >>)
               ELSE text

HearCharacter(key) ==
    /\ key = "glyph"
    /\ glyphKey
    /\ text' = IF isNull(line.selection) THEN Spliced(line.cursor, 0, <<Head(wire)[2]>>)
               ELSE Spliced(pos1, n1, <<Head(wire)[2]>>)

Hear ==
    /\ wire # << >>
    /\ wire' = Tail(wire)
    /\ LET key == Head(wire)[1]
       IN  \/ HearShift(key) \/ HearLeft(key) \/ HearRight(key)
           \/ HearBack(key) \/ HearCharacter(key)
    /\ UNCHANGED <<keyVars, timer, helper, meant>>

TypingNext ==
    \/ \E key \in Keys : handleCycleKey(key)
    \/ pressSlot \/ HoldDelete \/ Accept \/ Choose \/ Delete \/ Forget
    \/ Expire \/ AcceptLetter \/ FinishLetter \/ Hear

-----------------------------------------------------------------------------
(* Properties.                                                             *)
TypingTypeOK ==
    /\ cycleKey \in Keys \cup {NoKey, Deletes}
    /\ cycleCharacter \in Characters \cup {NoKey, Deletes}
    /\ modifier \in BOOLEAN /\ symbolState \in 1 .. 2 /\ ticking \in BOOLEAN
    /\ timer \in {"idle", "accept", "finish"}
    /\ helper \in {"idle", "accept", "choose", "delete", "forget"}
    /\ text \in Seq(Characters) /\ Len(text) = line.length
    /\ meant \in Seq(Characters)

(* "send new character replacing the old selection (if any)", "send shift  *)
(* left to make new selection" (apps/osk/Keyboard.cpp:268, 277): when the   *)
(* application has handled what the keyboard sent, its text is the letters *)
(* that were chosen, whenever the timer fired; a letter that may still be  *)
(* replaced is what is selected, and nothing is when there is none.        *)
Typed ==
    wire = << >> /\ timer = "idle" /\ helper = "idle" =>
        /\ text = meant
        /\ IF cycleKey \in Keys
           THEN ~ isNull(line.selection) /\ pos1 = Len(text) - 1 /\ n1 = 1
           ELSE isNull(line.selection) /\ line.cursor = Len(text)
=============================================================================
