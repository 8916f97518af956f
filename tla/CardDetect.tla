----------------------------- MODULE CardDetect -----------------------------
(***************************************************************************)
(* Detection of the memory card (source/mmc.c), the keyboard's buffer      *)
(* (source/keyboard.c) and the threads that look at them: the main beat    *)
(* interrupt (source/main.c) scans the keys and debounces the card switch, *)
(* the thread CardPresent mounts the card, the thread ButtonHandlerThread  *)
(* polls the key.                                                          *)
(*                                                                         *)
(* The interrupt comes between any two steps of the threads.               *)
(***************************************************************************)
EXTENDS Integers

CONSTANTS PresentOK,     \* CARD_PRESENT_COUNTER_OK
          NotPresentOK,  \* CARD_NOT_PRESENT_COUNTER_OK
          KeyCodes,      \* keys of the keyboard
          NoKey,         \* KEY_UNDEFINED, as KbRemapKey returns it
          MmcIn          \* KEY_MMC_IN, a virtual key

ASSUME CardAssumption ==
    /\ PresentOK \in Nat /\ PresentOK > 1
    /\ NotPresentOK \in Nat /\ NotPresentOK > 1
    /\ NoKey \notin KeyCodes /\ MmcIn \notin KeyCodes \cup {NoKey}

VARIABLES
    card,             \* the card is in its slot
    CardState, ValidateCounter,
    CardPresentFlag,
    OldCardStatus,    \* what CardPresent has seen last
    pc,               \* the place in CardPresent
    KeyBuffer,        \* the one slot of the buffer
    key,              \* the key the button handler was given last
    run,              \* history: scans in a row that found the card (> 0) or not (< 0)
    removed,          \* history: the card has left since it was mounted
    mounted           \* history: CardInitCard has mounted a card not yet closed

switch == <<CardState, ValidateCounter, CardPresentFlag>>
cardVars == <<card, switch, OldCardStatus, pc, KeyBuffer, key, run, removed, mounted>>

Bound == IF PresentOK > NotPresentOK THEN PresentOK ELSE NotPresentOK

CardInit ==
    /\ card \in BOOLEAN
    /\ CardState = "IDLE" /\ ValidateCounter = 0 /\ CardPresentFlag = FALSE
    /\ OldCardStatus = FALSE
    /\ pc = "look"
    /\ KeyBuffer = NoKey /\ key = NoKey
    /\ run = 0 /\ removed = FALSE /\ mounted = FALSE

\* Somebody puts the card in, takes it out, or its contact bounces.
CardMoves ==
    /\ card' = ~card
    /\ removed' = (removed \/ card)
    /\ UNCHANGED <<switch, OldCardStatus, pc, KeyBuffer, key, run, mounted>>

-----------------------------------------------------------------------------
\* CardCheckCard, one of its four states each.
CheckIdle ==
    /\ CardState = "IDLE"
    /\ IF card THEN ValidateCounter' = 1 /\ CardState' = "PRESENT"
       ELSE UNCHANGED <<ValidateCounter, CardState>>
    /\ UNCHANGED CardPresentFlag

\* Mutant: a bounce does not start the validation over.
CheckPresent_NoRestart ==
    /\ CardState = "PRESENT"
    /\ ValidateCounter' = ValidateCounter + 1
    /\ CardPresentFlag' = (CardPresentFlag \/ ValidateCounter' = PresentOK)
    /\ CardState' = IF ValidateCounter' = PresentOK THEN "VALID" ELSE "PRESENT"

CheckPresent ==
    /\ CardState = "PRESENT"
    /\ IF card
       THEN /\ ValidateCounter' = ValidateCounter + 1
            /\ CardPresentFlag' = (CardPresentFlag \/ ValidateCounter' = PresentOK)
            /\ CardState' = IF ValidateCounter' = PresentOK THEN "VALID" ELSE "PRESENT"
       ELSE CardState' = "IDLE" /\ UNCHANGED <<ValidateCounter, CardPresentFlag>>

CheckValid ==
    /\ CardState = "VALID"
    /\ IF card THEN UNCHANGED <<ValidateCounter, CardState>>
       ELSE ValidateCounter' = 1 /\ CardState' = "NOT_PRESENT"
    /\ UNCHANGED CardPresentFlag

\* Mutant: the scans are not counted.
CheckNotPresent_NoCount == CardState = "NOT_PRESENT" /\ UNCHANGED switch

\* The switch is not looked at any more.
CheckNotPresent ==
    /\ CardState = "NOT_PRESENT"
    /\ ValidateCounter' = ValidateCounter + 1
    /\ IF ValidateCounter' = NotPresentOK
       THEN CardPresentFlag' = FALSE /\ CardState' = "IDLE"
       ELSE UNCHANGED <<CardPresentFlag, CardState>>

InARow ==
    IF card THEN IF run < 0 THEN 1 ELSE IF run < Bound THEN run + 1 ELSE run
    ELSE IF run > 0 THEN 0 - 1 ELSE IF run > 0 - Bound THEN run - 1 ELSE run

\* SysMainBeatInterrupt: KbScan overwrites the buffer with the key that is
\* pressed, or NoKey, and CardCheckCard follows.
MainBeat ==
    /\ KeyBuffer' \in KeyCodes \cup {NoKey}
    /\ CheckIdle \/ CheckPresent \/ CheckValid \/ CheckNotPresent
    /\ run' = InARow
    /\ UNCHANGED <<card, OldCardStatus, pc, key, removed, mounted>>

-----------------------------------------------------------------------------
\* Mutant: the thread looks for the insertion only.
Look_InsertionOnly ==
    /\ pc = "look"
    /\ CardPresentFlag /\ ~OldCardStatus
    /\ pc' = "mount"
    /\ UNCHANGED <<card, switch, OldCardStatus, KeyBuffer, key, run, removed, mounted>>

\* The thread CardPresent compares the flag with what it has seen last; if
\* they are equal it sleeps and looks again.
Look ==
    /\ pc = "look"
    /\ CardPresentFlag # OldCardStatus
    /\ pc' = IF CardPresentFlag THEN "mount" ELSE "close"
    /\ UNCHANGED <<card, switch, OldCardStatus, KeyBuffer, key, run, removed, mounted>>

\* CardInitCard takes long; if it succeeds, KbInjectKey overwrites the key.
MountCard ==
    /\ pc = "mount"
    /\ pc' = "latch"
    /\ \/ card /\ mounted' = TRUE /\ removed' = FALSE /\ KeyBuffer' = MmcIn
       \/ UNCHANGED <<mounted, removed, KeyBuffer>>
    /\ UNCHANGED <<card, switch, OldCardStatus, key, run>>

CloseCard ==
    /\ pc = "close"
    /\ pc' = "latch"
    /\ mounted' = FALSE
    /\ UNCHANGED <<card, switch, OldCardStatus, KeyBuffer, key, run, removed>>

\* OldCardStatus=CardPresentFlag: the flag as it is now.
Latch ==
    /\ pc = "latch"
    /\ OldCardStatus' = CardPresentFlag
    /\ pc' = "look"
    /\ UNCHANGED <<card, switch, KeyBuffer, key, run, removed, mounted>>

CardPresent == Look \/ MountCard \/ CloseCard \/ Latch

\* ButtonHandlerThread polls the buffer: buttonHandler(KbGetKey()).
PollKey ==
    /\ key' = KeyBuffer
    /\ UNCHANGED <<card, switch, OldCardStatus, pc, KeyBuffer, run, removed, mounted>>

CardNext == CardMoves \/ MainBeat \/ CardPresent \/ PollKey

CardSpec == CardInit /\ [][CardNext]_cardVars

FairCardSpec == CardSpec /\ WF_cardVars(MainBeat) /\ WF_cardVars(CardPresent) /\ WF_cardVars(PollKey)

-----------------------------------------------------------------------------
CardTypeOK ==
    /\ card \in BOOLEAN
    /\ CardState \in {"IDLE", "PRESENT", "VALID", "NOT_PRESENT"}
    /\ ValidateCounter \in 0 .. Bound
    /\ CardPresentFlag \in BOOLEAN /\ OldCardStatus \in BOOLEAN
    /\ pc \in {"look", "mount", "close", "latch"}
    /\ KeyBuffer \in KeyCodes \cup {NoKey, MmcIn} /\ key \in KeyCodes \cup {NoKey, MmcIn}
    /\ run \in (0 - Bound) .. Bound /\ removed \in BOOLEAN /\ mounted \in BOOLEAN

\* The flag, the state and the counter agree at each step of the debouncing.
FlagMatchesState == CardPresentFlag <=> CardState \in {"VALID", "NOT_PRESENT"}

\* While an insertion is validated, the counter does not run ahead of the
\* scans in a row that have found the card.
ValidationCounted ==
    CardState = "PRESENT" => ValidateCounter \in 1 .. (PresentOK - 1) /\ ValidateCounter <= run

\* While a removal is validated, the counter has not reached its end.
RemovalCounted ==
    CardState = "NOT_PRESENT" => ValidateCounter \in 1 .. (NotPresentOK - 1)

\* The invariant of the debouncing: a counter left over by a bounce is never
\* taken for scans of the next validation.
DebounceInv == CardTypeOK /\ FlagMatchesState /\ ValidationCounted /\ RemovalCounted

\* A card is present when PresentOK scans in a row have found it (enum
\* T_CARD_STATE, "card seen at least <valid> times"); bounces start over.
InsertionValidated ==
    [][~CardPresentFlag /\ CardPresentFlag' => run' >= PresentOK]_cardVars

\* "card not seen at least (valid> times" (enum T_CARD_STATE): a card is
\* absent when NotPresentOK scans in a row have not found it.
RemovalValidated ==
    [][CardPresentFlag /\ ~CardPresentFlag' => run' <= 0 - NotPresentOK]_cardVars

\* The flag follows a card that is left in or out.
FlagSettles ==
    /\ <>[]card => <>[]CardPresentFlag
    /\ <>[]~card => <>[]~CardPresentFlag

\* The thread sees what the flag says once the card is left alone.
ThreadSettles == <>[][~CardMoves]_cardVars => <>[](pc = "look" /\ OldCardStatus = CardPresentFlag)

\* "execute code when card is inserted or redrawn" (CardPresent): a card
\* that is taken out for good after it was mounted is closed.
RemovalHandled == (mounted /\ removed) ~> (~mounted \/ card)

\* "This routine returns the first available valid key in this buffer"
\* (source/keyboard.c, KbGetKey): the key that KbInjectKey has put there when
\* a card was mounted is returned to the button handler.
InjectedKeyReturned == KeyBuffer = MmcIn ~> key = MmcIn

=============================================================================
