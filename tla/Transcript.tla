------------------------------- MODULE Transcript -------------------------------
(***************************************************************************)
(* What a session promises about its transcript, without files: a durable  *)
(* transcript that changes by one whole event at a time, under ids that    *)
(* only grow, and the copy of it that a live session shows, which differs  *)
(* from it by the event being recorded and by nothing else.  A crash loses *)
(* the shown copy; opening the session again shows the durable one.        *)
(***************************************************************************)
EXTENDS Naturals

CONSTANTS TranscriptMessage,    \* the messages of transcripts
          Absent                \* no session, nothing shown

VARIABLES
    durable,    \* [entries, last]: the recorded messages, as pairs of an id and a
                \* message, and the id of the last event; Absent without a session
    shown       \* the entries the live session shows, Absent when there is none

transcriptVars == <<durable, shown>>

Numbered(new) == new.entries \subseteq (1..new.last) \X TranscriptMessage

TranscriptInit == shown = Absent /\ (durable # Absent => Numbered(durable))

\* One event: a message under its own new id, the edit of a message, the removal of
\* what follows one, or something that is no message.
OneEvent(old, new) ==
    /\ new.last > old.last
    /\ \/ new.entries = old.entries
       \/ \E m \in TranscriptMessage : new.entries = old.entries \cup {<<new.last, m>>}
       \/ \E e \in old.entries, m \in TranscriptMessage :
             new.entries = (old.entries \ {e}) \cup {<<e[1], m>>}
       \/ \E e \in old.entries : new.entries = {f \in old.entries : f[1] <= e[1]}

\* A session comes into being with its first messages, or not at all.
Begin(new) ==
    /\ new # Absent /\ Numbered(new)
    /\ shown' = new.entries

\* Only what is shown changes, and an event is recorded while all is shown.
Record(old, new) == shown = old.entries /\ OneEvent(old, new) /\ UNCHANGED shown

\* The live session catches up, is opened, or is gone.
Show(now) == shown' \in {now.entries, Absent}

Remove(new) == shown = Absent /\ new = Absent /\ UNCHANGED shown

TranscriptNext ==
    \/ durable = Absent /\ Begin(durable')
    \/ durable # Absent /\ durable' # Absent /\ Record(durable, durable')
    \/ durable # Absent /\ UNCHANGED durable /\ Show(durable)
    \/ durable # Absent /\ Remove(durable')

TranscriptSpec == TranscriptInit /\ [][TranscriptNext]_transcriptVars
=============================================================================
