---------------------------- MODULE LiveUpdates -----------------------------
(***************************************************************************)
(* What reaches a client without its asking: the words of a Run that       *)
(* speaks, module LiveProgress, and the events of its Workspace, module    *)
(* WorkspaceStream.  They meet on the subscription of the client, where a  *)
(* frame of words names the event it follows; LiveProgress takes that link *)
(* as WorkspaceStream shows it to be, frames after what they follow and in *)
(* their order.  Each is followed with the other at rest.                  *)
(***************************************************************************)
EXTENDS LiveProgress

CONSTANTS MaxEvent, MaxFrame, MaxLost, MaxBuffered, MaxReplay, MaxLive, Hidden

VARIABLES followed,  \* what a behaviour is about: "words" or "events"
          committed, published, frames, follows, sub, channel, drops

Stream == INSTANCE WorkspaceStream WITH client <- channel, MaxDrop <- MaxLost

ASSUME UpdatesAssumption == Stream!StreamAssumption

streamVars == <<committed, published, frames, follows, sub, channel, drops>>
updateVars == <<followed, vars, streamVars>>

UpdatesInit == followed \in {"words", "events"} /\ Init /\ Stream!Init

UpdatesNext ==
  /\ \/ followed = "words" /\ Next /\ UNCHANGED streamVars
     \/ followed = "events" /\ Stream!Next /\ UNCHANGED vars
  /\ UNCHANGED followed

(* The fairness of each part.  That of the words asks nothing while they   *)
(* are at rest; a client at rest could still subscribe to the events.      *)
StreamFairness ==
  /\ WF_streamVars(/\ followed = "events"
                   /\ Stream!Subscribe \/ Stream!Read \/ Stream!Synchronize
                      \/ Stream!StartOver)
  /\ WF_streamVars(followed = "events" /\ Stream!StartFill)
  /\ WF_streamVars(followed = "events" /\ Stream!Fill)
  /\ WF_streamVars(followed = "events" /\ Stream!Deliver)

UpdatesSpec ==
  UpdatesInit /\ [][UpdatesNext]_updateVars /\ Fairness /\ StreamFairness

-----------------------------------------------------------------------------
(* The events of the Workspace reach the client in order, each frame after *)
(* the event it follows (SubscriberConnection).                            *)
EventsInOrder == Stream!EventsInOrder

(* What was said and what was published comes to be seen, however slow or  *)
(* broken the connections are.                                             *)
UpdatesArrive == <>[](Arrived /\ Stream!Arrived)
=============================================================================
