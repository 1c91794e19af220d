------------------------------- MODULE Notifier -------------------------------
(***************************************************************************)
(* The Slack notifier (main/slack/notifier.cpp): producers hand a message  *)
(* over a bounded queue to notifier_task, which posts it with a copy of    *)
(* the webhook URL while httpd may replace that URL.  Messages and URLs    *)
(* are blocks of the heap with one owner each; the URL also is in the NVS. *)
(*                                                                         *)
(* The texts of messages do not matter here, so that their blocks are only *)
(* counted.  Memory and the NVS may fail.                                  *)
(***************************************************************************)
EXTENDS Integers, FiniteSets

CONSTANTS
  SlackQueueDepth,    \* kQueueDepth (3)
  Url, NoUrl          \* webhook URLs of the right form, and none

ASSUME NotifierAssumption == SlackQueueDepth \in Nat \ {0} /\ NoUrl \notin Url

VARIABLES
  queued,           \* how many messages s_queue holds
  bodies,           \* how many blocks hold a message
  notifier_pc,      \* the call notifier_task is about to make
  url_heap,         \* the URL in each block that holds one
  webhook_url,      \* s_webhook_url: a block, or Null
  url_snap,         \* the local of notifier_task: a block, or Null
  old_url,          \* the local of slack_notifier_update_url: a block, or Null
  update_pc,        \* the call slack_notifier_update_url is about to make
  requested,        \* its argument
  nvs_url,          \* key "url" of the NVS
  promised,         \* history: the URL last answered with OK
  faulty            \* history: memory or the NVS failed since

taskVars   == <<notifier_pc, url_snap>>
msgVars    == <<queued, bodies>>
updateVars == <<old_url, update_pc, requested, nvs_url, promised>>
notifierVars == <<taskVars, msgVars, updateVars, url_heap, webhook_url, faulty>>

Null  == 0
Block == 1 .. 4    \* the cached URL, its successor, and the copy in use, with one to spare

NotifierTypeOK ==
  /\ queued \in 0 .. SlackQueueDepth /\ bodies \in 0 .. (SlackQueueDepth + 1)
  /\ notifier_pc \in {"receive", "snapshot", "post", "free"}
  /\ DOMAIN url_heap \subseteq Block /\ \A b \in DOMAIN url_heap : url_heap[b] \in Url
  /\ {webhook_url, url_snap, old_url} \subseteq Block \cup {Null}
  /\ update_pc \in {"none", "save", "swap", "free"}
  /\ {requested, nvs_url, promised} \subseteq Url \cup {NoUrl}
  /\ faulty \in BOOLEAN

Value(block) == IF block = Null THEN NoUrl ELSE url_heap[block]

FreeBlock == CHOOSE b \in Block : b \notin DOMAIN url_heap /\
               \A c \in Block \ DOMAIN url_heap : b <= c

Malloc(heap, b, url) == [c \in DOMAIN heap \cup {b} |-> IF c = b THEN url ELSE heap[c]]
Free(heap, b)        == [c \in DOMAIN heap \ {b} |-> heap[c]]

\* slack_notifier_init: the URL is loaded from the NVS, if there is memory for it.
Loaded ==
  \/ /\ nvs_url \in Url
     /\ url_heap' = Malloc(<< >>, 1, nvs_url) /\ webhook_url' = 1 /\ UNCHANGED faulty
  \/ /\ url_heap' = << >> /\ webhook_url' = Null
     /\ faulty' = (faulty \/ nvs_url \in Url)

NotifierInit ==
  /\ queued = 0 /\ bodies = 0 /\ notifier_pc = "receive"
  /\ url_heap = << >> /\ webhook_url = Null /\ url_snap = Null /\ old_url = Null
  /\ update_pc = "none" /\ requested = NoUrl
  /\ nvs_url = NoUrl /\ promised = NoUrl /\ faulty = FALSE

\* A reset; an update that was under way may have reached the NVS or not.
NotifierRestart ==
  /\ queued' = 0 /\ bodies' = 0 /\ notifier_pc' = "receive"
  /\ url_snap' = Null /\ old_url' = Null /\ update_pc' = "none" /\ requested' = NoUrl
  /\ promised' = IF update_pc = "none" THEN promised ELSE nvs_url
  /\ Loaded /\ UNCHANGED nvs_url

-------------------------------------------------------------------------------
\* Mutant: the body of a message that does not fit is not freed.
Send_Leaks ==
  /\ bodies' = bodies + 1
  /\ queued' = IF queued < SlackQueueDepth THEN queued + 1 ELSE queued
  /\ UNCHANGED <<taskVars, updateVars, url_heap, webhook_url, faulty>>

\* slack_notifier_send: a body is allocated and given to the queue, or, if there is no
\* memory or no room, given up.
Send ==
  /\ \/ queued < SlackQueueDepth /\ bodies' = bodies + 1 /\ queued' = queued + 1
     \/ UNCHANGED msgVars
  /\ UNCHANGED <<taskVars, updateVars, url_heap, webhook_url, faulty>>

-------------------------------------------------------------------------------
\* notifier_task.

Receive ==
  /\ notifier_pc = "receive" /\ queued > 0
  /\ queued' = queued - 1 /\ notifier_pc' = "snapshot"
  /\ UNCHANGED <<bodies, url_snap, updateVars, url_heap, webhook_url, faulty>>

\* Mutant: the pointer is used, not a copy.
Snapshot_NoCopy ==
  /\ notifier_pc = "snapshot"
  /\ url_snap' = webhook_url
  /\ notifier_pc' = IF webhook_url = Null THEN "free" ELSE "post"
  /\ UNCHANGED <<msgVars, updateVars, url_heap, webhook_url, faulty>>

\* Under s_url_mutex; without a URL, or memory for its copy, the message is dropped.
Snapshot ==
  /\ notifier_pc = "snapshot"
  /\ \/ /\ webhook_url # Null
        /\ url_snap' = FreeBlock /\ notifier_pc' = "post"
        /\ url_heap' = Malloc(url_heap, FreeBlock, url_heap[webhook_url])
     \/ notifier_pc' = "free" /\ UNCHANGED <<url_snap, url_heap>>
  /\ UNCHANGED <<msgVars, updateVars, webhook_url, faulty>>

\* post_to_slack, up to 5 s; nobody looks at its result.
Post ==
  /\ notifier_pc = "post"
  /\ url_heap' = Free(url_heap, url_snap) /\ url_snap' = Null
  /\ notifier_pc' = "free"
  /\ UNCHANGED <<msgVars, updateVars, webhook_url, faulty>>

FreeItem ==
  /\ notifier_pc = "free"
  /\ bodies' = bodies - 1 /\ notifier_pc' = "receive"
  /\ UNCHANGED <<queued, url_snap, updateVars, url_heap, webhook_url, faulty>>

NotifierTask == Receive \/ Snapshot \/ Post \/ FreeItem

-------------------------------------------------------------------------------
\* slack_notifier_update_url, called by httpd with a valid URL or none.

UpdateUrl(url) ==
  /\ update_pc = "none"
  /\ requested' = url /\ update_pc' = "save"
  /\ UNCHANGED <<taskVars, msgVars, old_url, nvs_url, promised, url_heap, webhook_url, faulty>>

\* Mutant: a URL that could not be written is used all the same.
SaveUrl_GoesOn ==
  /\ update_pc = "save"
  /\ update_pc' = "swap"
  /\ nvs_url' \in {requested, nvs_url}
  /\ UNCHANGED <<taskVars, msgVars, old_url, requested, promised, url_heap, webhook_url, faulty>>

\* The NVS comes first: an error is answered and ends the update, except that of an
\* erasure, which is not looked at.
SaveUrl ==
  /\ update_pc = "save"
  /\ \/ nvs_url' = requested /\ faulty' = FALSE /\ update_pc' = "swap" /\ UNCHANGED requested
     \/ UNCHANGED <<nvs_url, faulty>> /\ update_pc' = "none" /\ requested' = NoUrl
     \/ /\ requested = NoUrl /\ nvs_url # NoUrl
        /\ UNCHANGED <<nvs_url, requested>> /\ faulty' = TRUE /\ update_pc' = "swap"
  /\ UNCHANGED <<taskVars, msgVars, old_url, promised, url_heap, webhook_url>>

\* Under s_url_mutex; there may be no memory for the new URL.
SwapUrl ==
  /\ update_pc = "swap"
  /\ old_url' = webhook_url
  /\ \/ /\ requested \in Url
        /\ webhook_url' = FreeBlock /\ url_heap' = Malloc(url_heap, FreeBlock, requested)
        /\ UNCHANGED faulty
     \/ /\ webhook_url' = Null /\ UNCHANGED url_heap
        /\ faulty' = (faulty \/ requested \in Url)
  /\ update_pc' = "free"
  /\ UNCHANGED <<taskVars, msgVars, requested, nvs_url, promised>>

\* The old URL is freed, and the request is answered with OK.
FreeOldUrl ==
  /\ update_pc = "free"
  /\ url_heap' = IF old_url = Null THEN url_heap ELSE Free(url_heap, old_url)
  /\ old_url' = Null /\ update_pc' = "none"
  /\ promised' = requested /\ requested' = NoUrl
  /\ UNCHANGED <<taskVars, msgVars, nvs_url, webhook_url, faulty>>

UpdateStep == SaveUrl \/ SwapUrl \/ FreeOldUrl

-------------------------------------------------------------------------------
\* Every block has exactly one owner: none is lost, freed twice or used after it was
\* freed, whatever the notifier and an update of the URL do at the same time, and
\* however many messages do not fit (SlackMsg: ownership goes to the consumer).
HeapIsOwned ==
  /\ bodies = queued + IF notifier_pc = "receive" THEN 0 ELSE 1
  /\ LET owned == {webhook_url, url_snap, old_url} \ {Null}
     IN  /\ DOMAIN url_heap = owned
         /\ \A p, q \in {"webhook", "snap", "old"} :
              LET Ptr(x) == CASE x = "webhook" -> webhook_url [] x = "snap" -> url_snap
                              [] OTHER -> old_url
              IN  p # q /\ Ptr(p) # Null => Ptr(p) # Ptr(q)

\* Between updates the URL in use is the one that was answered with OK, and a restart
\* gives it back, as long as memory suffices and the NVS can erase
\* (slack_notifier_update_url: the NVS first, then the copy in RAM).
UrlIsAsAnswered ==
  update_pc = "none" /\ ~faulty => Value(webhook_url) = promised /\ nvs_url = promised
===============================================================================
