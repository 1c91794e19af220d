----------------------------- MODULE AlertsProofs -----------------------------
(***************************************************************************)
(* Theorems about Alerts: the ownership of blocks and the promised URL of  *)
(* the notifier, and the two guarantees of the limiter of failed logins.   *)
(***************************************************************************)
EXTENDS Alerts, TLAPS

-------------------------------------------------------------------------------
\* The notifier.

\* Which pointer may be set at which call: the copy only while it is posted, the URL
\* that was replaced only until it is freed, the argument only during an update.
PointersFitCalls ==
  /\ url_snap # Null <=> notifier_pc = "post"
  /\ update_pc # "free" => old_url = Null
  /\ update_pc = "none" => requested = NoUrl

\* Who owns which block, with the pairs written out.
BlocksAreOwned ==
  /\ bodies = queued + IF notifier_pc = "receive" THEN 0 ELSE 1
  /\ DOMAIN url_heap = {webhook_url, url_snap, old_url} \ {Null}
  /\ webhook_url # Null => webhook_url # url_snap /\ webhook_url # old_url
  /\ url_snap # Null => url_snap # old_url

\* What NVS and RAM hold at each call of an update that nothing failed in.
UrlFollowsUpdate ==
  ~faulty =>
    /\ update_pc \in {"none", "save"} =>
         Value(webhook_url) = promised /\ nvs_url = promised
    /\ update_pc \in {"swap", "free"} => nvs_url = requested
    /\ update_pc = "free" => Value(webhook_url) = requested

NotifierInv == NotifierTypeOK /\ PointersFitCalls /\ BlocksAreOwned /\ UrlFollowsUpdate

\* FreeBlock is a free block as long as there is one (malloc returns memory that
\* nobody owns).
LEMMA FreeBlockIsFree ==
  ASSUME Block \ DOMAIN url_heap # {}
  PROVE  FreeBlock \in Block \ DOMAIN url_heap
<1> DEFINE IsFirst(b) == b \notin DOMAIN url_heap /\ \A c \in Block \ DOMAIN url_heap : b <= c
<1>1. \E b \in Block : IsFirst(b)
  BY DEF Block
<1>2. QED
  BY <1>1 DEF FreeBlock

\* Three pointers cannot own four blocks: malloc has one to give in every state.
LEMMA BlocksSuffice ==
  ASSUME NotifierInv
  PROVE  /\ FreeBlock \in Block /\ FreeBlock \notin DOMAIN url_heap /\ FreeBlock # Null
         /\ FreeBlock \notin {webhook_url, url_snap, old_url}
<1>1. Block \ DOMAIN url_heap # {}
  BY DEF NotifierInv, NotifierTypeOK, BlocksAreOwned, Block, Null
<1>2. FreeBlock \in Block \ DOMAIN url_heap
  BY <1>1, FreeBlockIsFree
<1>3. QED
  BY <1>2 DEF NotifierInv, BlocksAreOwned, Block, Null

\* The invariant of the notifier holds at the start.
LEMMA NotifierInitInv == NotifierInit => NotifierInv
<1>1. SUFFICES ASSUME NotifierInit PROVE NotifierInv
  OBVIOUS
<1>2. DOMAIN url_heap = {}
  BY <1>1 DEF NotifierInit
<1>3. NotifierTypeOK
  <2>1. queued \in 0 .. SlackQueueDepth /\ bodies \in 0 .. (SlackQueueDepth + 1)
    BY <1>1, NotifierAssumption DEF NotifierInit
  <2>2. DOMAIN url_heap \subseteq Block /\ \A b \in DOMAIN url_heap : url_heap[b] \in Url
    BY <1>2
  <2>3. {webhook_url, url_snap, old_url} \subseteq Block \cup {Null}
    BY <1>1 DEF NotifierInit
  <2>4. {requested, nvs_url, promised} \subseteq Url \cup {NoUrl}
    BY <1>1 DEF NotifierInit
  <2>5. faulty \in BOOLEAN
    BY <1>1 DEF NotifierInit
  <2>6. QED
    BY <1>1, <2>1, <2>2, <2>3, <2>4, <2>5 DEF NotifierInit, NotifierTypeOK
<1>4. PointersFitCalls /\ BlocksAreOwned
  BY <1>1, <1>2 DEF NotifierInit, PointersFitCalls, BlocksAreOwned, Null
<1>5. UrlFollowsUpdate
  BY <1>1 DEF NotifierInit, UrlFollowsUpdate, Value
<1>6. QED
  BY <1>3, <1>4, <1>5 DEF NotifierInv

\* A message more or none (slack_notifier_send) changes no pointer.
LEMMA SendInv == NotifierInv /\ Send => NotifierInv'
<1>1. SUFFICES ASSUME NotifierInv, Send PROVE NotifierInv'
  OBVIOUS
<1> USE DEF NotifierInv
<1>2. UNCHANGED <<notifier_pc, url_snap, old_url, update_pc, requested, nvs_url, promised,
                  url_heap, webhook_url, faulty>>
  BY <1>1 DEF Send, taskVars, updateVars
<1>3. /\ queued' \in 0 .. SlackQueueDepth /\ bodies' \in 0 .. (SlackQueueDepth + 1)
      /\ bodies' = queued' + IF notifier_pc = "receive" THEN 0 ELSE 1
  BY <1>1, NotifierAssumption DEF Send, msgVars, NotifierTypeOK, BlocksAreOwned
<1>4. NotifierTypeOK'
  BY <1>1, <1>2, <1>3 DEF NotifierTypeOK
<1>5. PointersFitCalls' /\ BlocksAreOwned'
  BY <1>1, <1>2, <1>3 DEF PointersFitCalls, BlocksAreOwned
<1>6. UrlFollowsUpdate'
  BY <1>1, <1>2 DEF UrlFollowsUpdate, Value
<1>7. QED
  BY <1>4, <1>5, <1>6

\* notifier_task takes a message, copies the URL, posts, and frees what it used.
LEMMA NotifierTaskInv == NotifierInv /\ NotifierTask => NotifierInv'
<1>1. SUFFICES ASSUME NotifierInv, NotifierTask PROVE NotifierInv'
  OBVIOUS
<1> USE NotifierAssumption DEF NotifierInv
<1>2. CASE Receive
  <2>1. UNCHANGED <<url_snap, old_url, update_pc, requested, nvs_url, promised, url_heap,
                    webhook_url, faulty>>
    BY <1>2 DEF Receive, updateVars
  <2>2. NotifierTypeOK' /\ PointersFitCalls' /\ BlocksAreOwned'
    BY <1>1, <1>2, <2>1 DEF Receive, NotifierTypeOK, PointersFitCalls, BlocksAreOwned
  <2>3. UrlFollowsUpdate'
    BY <1>1, <2>1 DEF UrlFollowsUpdate, Value
  <2>4. QED
    BY <2>2, <2>3
<1>3. CASE Snapshot
  <2>1. UNCHANGED <<queued, bodies, old_url, update_pc, requested, nvs_url, promised,
                    webhook_url, faulty>>
    BY <1>3 DEF Snapshot, msgVars, updateVars
  <2>2. CASE notifier_pc' = "free" /\ UNCHANGED <<url_snap, url_heap>>
    <3>1. NotifierTypeOK' /\ PointersFitCalls' /\ BlocksAreOwned'
      BY <1>1, <1>3, <2>1, <2>2 DEF Snapshot, NotifierTypeOK, PointersFitCalls, BlocksAreOwned
    <3>2. UrlFollowsUpdate'
      BY <1>1, <2>1, <2>2 DEF UrlFollowsUpdate, Value
    <3>3. QED
      BY <3>1, <3>2
  <2>3. CASE /\ webhook_url # Null
             /\ url_snap' = FreeBlock /\ notifier_pc' = "post"
             /\ url_heap' = Malloc(url_heap, FreeBlock, url_heap[webhook_url])
    <3>1. /\ FreeBlock \in Block /\ FreeBlock \notin DOMAIN url_heap /\ FreeBlock # Null
          /\ FreeBlock \notin {webhook_url, url_snap, old_url}
      BY <1>1, BlocksSuffice
    <3>2. webhook_url \in DOMAIN url_heap /\ url_snap = Null
      BY <1>1, <1>3, <2>3 DEF Snapshot, BlocksAreOwned, PointersFitCalls
    <3>3. /\ DOMAIN url_heap' = DOMAIN url_heap \cup {FreeBlock}
          /\ url_heap'[FreeBlock] = url_heap[webhook_url]
          /\ \A b \in DOMAIN url_heap : url_heap'[b] = url_heap[b]
      BY <2>3, <3>1 DEF Malloc
    <3>4. NotifierTypeOK'
      BY <1>1, <2>1, <2>3, <3>1, <3>2, <3>3 DEF NotifierTypeOK
    <3>5. PointersFitCalls' /\ BlocksAreOwned'
      BY <1>1, <1>3, <2>1, <2>3, <3>1, <3>2, <3>3 DEF Snapshot, PointersFitCalls, BlocksAreOwned
    <3>6. Value(webhook_url)' = Value(webhook_url)
      BY <2>1, <3>2, <3>3 DEF Value
    <3>7. UrlFollowsUpdate'
      BY <1>1, <2>1, <3>6 DEF UrlFollowsUpdate
    <3>8. QED
      BY <3>4, <3>5, <3>7
  <2>4. QED
    BY <1>3, <2>2, <2>3 DEF Snapshot
<1>4. CASE Post
  <2>1. UNCHANGED <<queued, bodies, old_url, update_pc, requested, nvs_url, promised,
                    webhook_url, faulty>>
    BY <1>4 DEF Post, msgVars, updateVars
  <2>2. /\ DOMAIN url_heap' = DOMAIN url_heap \ {url_snap}
        /\ \A b \in DOMAIN url_heap' : url_heap'[b] = url_heap[b]
    BY <1>4 DEF Post, Free
  <2>3. NotifierTypeOK'
    BY <1>1, <1>4, <2>1, <2>2 DEF Post, NotifierTypeOK
  <2>4. PointersFitCalls' /\ BlocksAreOwned'
    BY <1>1, <1>4, <2>1, <2>2 DEF Post, PointersFitCalls, BlocksAreOwned
  <2>5. Value(webhook_url)' = Value(webhook_url)
    BY <1>1, <1>4, <2>1, <2>2 DEF Post, Value, BlocksAreOwned, PointersFitCalls
  <2>6. UrlFollowsUpdate'
    BY <1>1, <2>1, <2>5 DEF UrlFollowsUpdate
  <2>7. QED
    BY <2>3, <2>4, <2>6
<1>5. CASE FreeItem
  <2>1. UNCHANGED <<queued, url_snap, old_url, update_pc, requested, nvs_url, promised,
                    url_heap, webhook_url, faulty>>
    BY <1>5 DEF FreeItem, updateVars
  <2>2. NotifierTypeOK' /\ PointersFitCalls' /\ BlocksAreOwned'
    BY <1>1, <1>5, <2>1 DEF FreeItem, NotifierTypeOK, PointersFitCalls, BlocksAreOwned
  <2>3. UrlFollowsUpdate'
    BY <1>1, <2>1 DEF UrlFollowsUpdate, Value
  <2>4. QED
    BY <2>2, <2>3
<1>6. QED
  BY <1>1, <1>2, <1>3, <1>4, <1>5 DEF NotifierTask

\* A request for another URL, which is only remembered.
LEMMA UpdateUrlInv ==
  ASSUME NotifierInv, NEW url \in Url \cup {NoUrl}, UpdateUrl(url)
  PROVE  NotifierInv'
<1> USE DEF NotifierInv
<1>1. UNCHANGED <<queued, bodies, notifier_pc, url_snap, old_url, nvs_url, promised, url_heap,
                  webhook_url, faulty>>
  BY DEF UpdateUrl, taskVars, msgVars
<1>2. NotifierTypeOK' /\ PointersFitCalls' /\ BlocksAreOwned'
  BY <1>1 DEF UpdateUrl, NotifierTypeOK, PointersFitCalls, BlocksAreOwned
<1>3. UrlFollowsUpdate'
  BY <1>1 DEF UpdateUrl, UrlFollowsUpdate, Value
<1>4. QED
  BY <1>2, <1>3

\* The three steps of slack_notifier_update_url: the NVS, the swap under the mutex, and
\* the release of the old URL.
LEMMA UpdateStepInv == NotifierInv /\ UpdateStep => NotifierInv'
<1>1. SUFFICES ASSUME NotifierInv, UpdateStep PROVE NotifierInv'
  OBVIOUS
<1> USE NotifierAssumption DEF NotifierInv
<1>2. CASE SaveUrl
  <2>1. UNCHANGED <<queued, bodies, notifier_pc, url_snap, old_url, promised, url_heap,
                    webhook_url>>
    BY <1>2 DEF SaveUrl, taskVars, msgVars
  <2>2. NotifierTypeOK'
    BY <1>1, <1>2, <2>1 DEF SaveUrl, NotifierTypeOK
  <2>3. PointersFitCalls' /\ BlocksAreOwned'
    BY <1>1, <1>2, <2>1 DEF SaveUrl, PointersFitCalls, BlocksAreOwned
  <2>4. UrlFollowsUpdate'
    BY <1>1, <1>2, <2>1 DEF SaveUrl, UrlFollowsUpdate, Value
  <2>5. QED
    BY <2>2, <2>3, <2>4
<1>3. CASE SwapUrl
  <2>1. UNCHANGED <<queued, bodies, notifier_pc, url_snap, requested, nvs_url, promised>>
    BY <1>3 DEF SwapUrl, taskVars, msgVars
  <2>2. CASE webhook_url' = Null /\ UNCHANGED url_heap /\ faulty' = (faulty \/ requested \in Url)
    <3>1. NotifierTypeOK'
      BY <1>1, <1>3, <2>1, <2>2 DEF SwapUrl, NotifierTypeOK
    <3>2. PointersFitCalls' /\ BlocksAreOwned'
      BY <1>1, <1>3, <2>1, <2>2 DEF SwapUrl, PointersFitCalls, BlocksAreOwned
    <3>3. UrlFollowsUpdate'
      BY <1>1, <1>3, <2>1, <2>2 DEF SwapUrl, UrlFollowsUpdate, NotifierTypeOK, Value
    <3>4. QED
      BY <3>1, <3>2, <3>3
  <2>3. CASE /\ requested \in Url
             /\ webhook_url' = FreeBlock /\ url_heap' = Malloc(url_heap, FreeBlock, requested)
             /\ UNCHANGED faulty
    <3>1. /\ FreeBlock \in Block /\ FreeBlock \notin DOMAIN url_heap /\ FreeBlock # Null
          /\ FreeBlock \notin {webhook_url, url_snap, old_url}
      BY <1>1, BlocksSuffice
    <3>2. /\ DOMAIN url_heap' = DOMAIN url_heap \cup {FreeBlock}
          /\ url_heap'[FreeBlock] = requested
          /\ \A b \in DOMAIN url_heap : url_heap'[b] = url_heap[b]
      BY <2>3, <3>1 DEF Malloc
    <3>3. NotifierTypeOK'
      BY <1>1, <1>3, <2>1, <2>3, <3>1, <3>2 DEF SwapUrl, NotifierTypeOK
    <3>4. PointersFitCalls' /\ BlocksAreOwned'
      BY <1>1, <1>3, <2>1, <2>3, <3>1, <3>2 DEF SwapUrl, PointersFitCalls, BlocksAreOwned
    <3>5. Value(webhook_url)' = requested
      BY <2>3, <3>1, <3>2 DEF Value
    <3>6. UrlFollowsUpdate'
      BY <1>1, <1>3, <2>1, <2>3, <3>5 DEF SwapUrl, UrlFollowsUpdate
    <3>7. QED
      BY <3>3, <3>4, <3>6
  <2>4. QED
    BY <1>3, <2>2, <2>3 DEF SwapUrl
<1>4. CASE FreeOldUrl
  <2>1. UNCHANGED <<queued, bodies, notifier_pc, url_snap, nvs_url, webhook_url, faulty>>
    BY <1>4 DEF FreeOldUrl, taskVars, msgVars
  <2>2. /\ DOMAIN url_heap' = DOMAIN url_heap \ {old_url}
        /\ \A b \in DOMAIN url_heap' : url_heap'[b] = url_heap[b]
    BY <1>1, <1>4 DEF FreeOldUrl, Free, BlocksAreOwned
  <2>3. NotifierTypeOK'
    BY <1>1, <1>4, <2>1, <2>2 DEF FreeOldUrl, NotifierTypeOK
  <2>4. PointersFitCalls' /\ BlocksAreOwned'
    BY <1>1, <1>4, <2>1, <2>2 DEF FreeOldUrl, PointersFitCalls, BlocksAreOwned
  <2>5. Value(webhook_url)' = Value(webhook_url)
    BY <1>1, <1>4, <2>1, <2>2 DEF Value, BlocksAreOwned
  <2>6. UrlFollowsUpdate'
    BY <1>1, <1>4, <2>1, <2>5 DEF FreeOldUrl, UrlFollowsUpdate
  <2>7. QED
    BY <2>3, <2>4, <2>6
<1>5. QED
  BY <1>1, <1>2, <1>3, <1>4 DEF UpdateStep

\* A reset gives all memory back; slack_notifier_init reads the NVS again.
LEMMA NotifierRestartInv == NotifierInv /\ NotifierRestart => NotifierInv'
<1>1. SUFFICES ASSUME NotifierInv, NotifierRestart PROVE NotifierInv'
  OBVIOUS
<1> USE NotifierAssumption DEF NotifierInv
<1>2. /\ queued' = 0 /\ bodies' = 0 /\ notifier_pc' = "receive" /\ url_snap' = Null
      /\ old_url' = Null /\ update_pc' = "none" /\ requested' = NoUrl /\ nvs_url' = nvs_url
      /\ promised' \in Url \cup {NoUrl}
      /\ ~faulty => promised' = nvs_url
  BY <1>1 DEF NotifierRestart, NotifierTypeOK, UrlFollowsUpdate
<1>3. DOMAIN << >> = {}
  OBVIOUS
<1>4. CASE nvs_url \in Url /\ url_heap' = Malloc(<< >>, 1, nvs_url) /\ webhook_url' = 1
           /\ UNCHANGED faulty
  <2>1. DOMAIN url_heap' = {1} /\ url_heap'[1] = nvs_url
    BY <1>3, <1>4 DEF Malloc
  <2>2. NotifierTypeOK'
    BY <1>1, <1>2, <1>4, <2>1 DEF NotifierTypeOK, Block, Null
  <2>3. PointersFitCalls' /\ BlocksAreOwned'
    <3>1. {webhook_url', url_snap', old_url'} \ {Null} = {1}
      BY <1>2, <1>4 DEF Null
    <3>2. webhook_url' # url_snap' /\ webhook_url' # old_url' /\ url_snap' = Null
      BY <1>2, <1>4 DEF Null
    <3>3. PointersFitCalls'
      BY <1>2 DEF PointersFitCalls
    <3>4. BlocksAreOwned'
      BY <1>2, <2>1, <3>1, <3>2 DEF BlocksAreOwned
    <3>5. QED
      BY <3>3, <3>4
  <2>4. Value(webhook_url)' = nvs_url
    BY <1>4, <2>1 DEF Value, Null
  <2>5. QED
    BY <1>2, <1>4, <2>2, <2>3, <2>4 DEF UrlFollowsUpdate
<1>5. CASE url_heap' = << >> /\ webhook_url' = Null /\ faulty' = (faulty \/ nvs_url \in Url)
  <2>1. DOMAIN url_heap' = {}
    BY <1>3, <1>5
  <2>2. NotifierTypeOK'
    BY <1>1, <1>2, <1>5, <2>1 DEF NotifierTypeOK
  <2>3. PointersFitCalls' /\ BlocksAreOwned'
    BY <1>2, <1>5, <2>1 DEF PointersFitCalls, BlocksAreOwned, Null
  <2>4. UrlFollowsUpdate'
    BY <1>1, <1>2, <1>5 DEF UrlFollowsUpdate, Value, NotifierTypeOK
  <2>5. QED
    BY <2>2, <2>3, <2>4
<1>6. QED
  BY <1>1, <1>4, <1>5 DEF NotifierRestart, Loaded

\* Every step of the system is a step of the notifier, of somebody who gives it a message
\* or a URL, or none of its business.
LEMMA NotifierNextInv == NotifierInv /\ [Next]_vars => NotifierInv'
<1>1. SUFFICES ASSUME NotifierInv, [Next]_vars PROVE NotifierInv'
  OBVIOUS
<1>2. CASE UNCHANGED notifierVars
  <2>1. UNCHANGED <<queued, bodies, notifier_pc, url_snap, old_url, update_pc, requested,
                    nvs_url, promised, url_heap, webhook_url, faulty>>
    BY <1>2 DEF notifierVars, taskVars, msgVars, updateVars
  <2>2. QED
    BY <1>1, <2>1 DEF NotifierInv, NotifierTypeOK, PointersFitCalls, BlocksAreOwned,
       UrlFollowsUpdate, Value
<1>3. CASE Send
  BY <1>1, <1>3, SendInv
<1>4. CASE NotifierTask \/ UpdateStep
  BY <1>1, <1>4, NotifierTaskInv, UpdateStepInv
<1>5. CASE NotifierRestart
  BY <1>1, <1>5, NotifierRestartInv
<1>6. CASE \E url \in Url \cup {NoUrl} : UpdateUrl(url)
  BY <1>1, <1>6, UpdateUrlInv
<1>7. QED
  BY <1>1, <1>2, <1>3, <1>4, <1>5, <1>6 DEF Next, vars, FailedLogin, SendAlert, AuditLog,
     SlackUpdate, Restart, TimePasses

\* The invariant of the notifier is one of the system.
LEMMA NotifierIsInvariant == Spec => []NotifierInv
<1>1. Init => NotifierInv
  BY NotifierInitInv DEF Init
<1>2. QED
  BY <1>1, NotifierNextInv, PTL DEF Spec

\* Whatever notifier_task, an update of the URL and the senders of messages do at the same
\* time, and whenever memory runs out, each block has one owner: none is lost, freed twice
\* or used after it was freed (slack_notifier_update_url, notifier_task).
THEOREM BlocksHaveOneOwner == Spec => []HeapIsOwned
<1>1. ASSUME NotifierInv PROVE HeapIsOwned
  <2> DEFINE Ptr(x) == CASE x = "webhook" -> webhook_url [] x = "snap" -> url_snap
                         [] OTHER -> old_url
  <2>1. Ptr("webhook") = webhook_url /\ Ptr("snap") = url_snap /\ Ptr("old") = old_url
    OBVIOUS
  <2>2. ASSUME NEW p \in {"webhook", "snap", "old"}, NEW q \in {"webhook", "snap", "old"}
        PROVE  p # q /\ Ptr(p) # Null => Ptr(p) # Ptr(q)
    <3> HIDE DEF Ptr
    <3>1. QED
      BY <1>1, <2>1 DEF NotifierInv, BlocksAreOwned
  <2>3. QED
    BY <1>1, <2>2 DEF NotifierInv, BlocksAreOwned, HeapIsOwned
<1>2. QED
  BY <1>1, NotifierIsInvariant, PTL

\* An update that was answered with OK is what RAM and the NVS hold until the next one,
\* resets included, unless memory or the NVS failed (slack_notifier_update_url: the NVS
\* first, then the copy in RAM).
THEOREM AnsweredUrlIsKept == Spec => []UrlIsAsAnswered
<1>1. NotifierInv => UrlIsAsAnswered
  BY DEF NotifierInv, UrlFollowsUpdate, UrlIsAsAnswered
<1>2. QED
  BY <1>1, NotifierIsInvariant, PTL

-------------------------------------------------------------------------------
\* The limiter.

\* What an entry of audit_401 says about the failures seen so far, own being those of its
\* address: once its count reached the threshold there was an alert, at a failure within the
\* limit; a smaller count is that of the failures since its window began; and if as many of
\* its own as make an alert came close together before that window began, they made one.
Accounted(count, age, alert, seq, own, threshold, window, limit) ==
  LET first == Len(seq) - count + 1    \* the failure its window began with
  IN  /\ count = 0 <=> Len(seq) = 0
      /\ count >= threshold =>
           /\ age <= limit => alert <= age
           /\ seq[Len(seq)].age <= window => alert <= limit + seq[Len(seq)].age
      /\ count < threshold =>
           /\ count <= Len(seq)
           /\ first \in 2 .. Len(seq) /\ seq[first].age <= window =>
                age = seq[first].age
           /\ first > threshold /\ (\A j \in (first - threshold) .. (first - 1) :
                                       j \in own /\ seq[j].age <= window) =>
                alert <= limit + seq[first - 1].age

OwnFailures == {j \in DOMAIN failures : failures[j].ip = latest_fail.ip}

IpAccounted == Accounted(latest_fail.count, latest_fail.age, ip_alert, failures, OwnFailures,
                         FailThreshold, FailWindow, IpLimit)
GlobalAccounted == Accounted(global_fail.count, global_fail.age, global_alert, failures,
                     DOMAIN failures, FailGlobalThresh, FailGlobalWindow, FailGlobalWindow)

LimiterInv ==
  /\ LimiterTypeOK /\ IpAccounted /\ GlobalAccounted
  /\ latest_fail.count = 0 <=> latest_fail.ip = NoIp
  /\ latest_fail.alerted <=> latest_fail.count >= FailThreshold
  /\ global_fail.alerted <=> global_fail.count >= FailGlobalThresh
  /\ failures # << >> => failures[Len(failures)].ip = latest_fail.ip

\* seq2 is seq without its d oldest failures and with one more.
OneMore(seq, seq2, d) ==
  /\ Len(seq2) = Len(seq) + 1 - d
  /\ \A j \in 1 .. Len(seq) : seq[j].age \in Nat
  /\ \A j \in 1 .. (Len(seq2) - 1) : seq2[j] = seq[j + d]
  /\ seq2[Len(seq2)].age = 0

\* What is own after that was own before.
StaysOwn(own, own2, seq2, d) == \A j \in own2 : j < Len(seq2) => j + d \in own

\* The entry stays accounted for when one more failure of its own is counted in its window
\* (audit_401: ++count, and an alert when it reaches the threshold).
LEMMA AccountedWhenCounted ==
  ASSUME NEW n \in Nat \ {0}, NEW w \in Nat, NEW lim \in Nat, NEW d \in 0 .. 1,
         NEW seq, NEW seq2, Len(seq) \in Nat, Len(seq2) \in Nat,
         d = 1 => Len(seq) >= n, NEW own, NEW own2,
         NEW count \in Nat, NEW age \in Nat, NEW alert \in Nat,
         NEW count2 \in Nat, NEW alert2 \in Nat,
         age <= lim, count2 = IF count <= n THEN count + 1 ELSE n + 1,
         alert2 = IF count2 = n /\ count < n THEN 0 ELSE alert
  PROVE  /\ OneMore(seq, seq2, d) /\ StaysOwn(own, own2, seq2, d)
         /\ Accounted(count, age, alert, seq, own, n, w, lim)
         => Accounted(count2, age, alert2, seq2, own2, n, w, lim)
<1> DEFINE first  == Len(seq) - count + 1
           first2 == Len(seq2) - count2 + 1
<1>0. SUFFICES ASSUME OneMore(seq, seq2, d), StaysOwn(own, own2, seq2, d),
                      Accounted(count, age, alert, seq, own, n, w, lim)
               PROVE  Accounted(count2, age, alert2, seq2, own2, n, w, lim)
  OBVIOUS
<1>1. Len(seq2) = Len(seq) + 1 - d
  BY <1>0 DEF OneMore
<1>2. Len(seq2) >= 1 /\ count2 >= 1
  BY <1>1
<1>4. ASSUME count2 >= n
      PROVE  /\ age <= lim => alert2 <= age
             /\ seq2[Len(seq2)].age <= w => alert2 <= lim + seq2[Len(seq2)].age
  <2>1. alert2 <= age
    <3>1. CASE count >= n
      <4>1. alert <= age
        BY <1>0, <3>1 DEF Accounted
      <4>2. QED
        BY <3>1, <4>1
    <3>2. CASE count < n
      BY <1>4, <3>2
    <3>3. QED
      BY <3>1, <3>2
  <2>2. seq2[Len(seq2)].age = 0
    BY <1>0 DEF OneMore
  <2>3. QED
    BY <2>1, <2>2
<1>5. ASSUME count2 < n
      PROVE  /\ count2 = count + 1 /\ count < n /\ count2 <= Len(seq2)
             /\ first2 + d = first /\ alert2 = alert
  <2>1. count2 = count + 1 /\ count < n
    BY <1>5
  <2>2. count <= Len(seq)
    BY <1>0, <2>1 DEF Accounted
  <2>3. count2 <= Len(seq2)
    BY <1>1, <1>5, <2>1, <2>2
  <2>4. first2 + d = first
    BY <1>1, <2>1
  <2>5. alert2 = alert
    BY <1>5
  <2>6. QED
    BY <2>1, <2>3, <2>4, <2>5
<1>6. ASSUME count2 < n, first2 \in 2 .. Len(seq2), seq2[first2].age <= w
      PROVE  age = seq2[first2].age
  <2>1. CASE count = 0
    BY <1>0, <1>1, <1>2, <1>5, <1>6, <2>1 DEF Accounted
  <2>2. CASE count # 0
    <3>1. first2 \in 1 .. (Len(seq2) - 1) /\ first \in 2 .. Len(seq)
      <4>1. count2 = count + 1 /\ first2 + d = first /\ first2 \in 2 .. Len(seq2)
        BY <1>5, <1>6
      <4>2. first2 \in 1 .. (Len(seq2) - 1)
        BY <1>1, <2>2, <4>1
      <4>3. first \in 2 .. Len(seq)
        BY <1>1, <2>2, <4>1
      <4>4. QED
        BY <4>2, <4>3
    <3>2. seq2[first2] = seq[first]
      BY <1>0, <1>5, <1>6, <3>1 DEF OneMore
    <3>3. QED
      BY <1>0, <1>5, <1>6, <3>1, <3>2 DEF Accounted
  <2>3. QED
    BY <2>1, <2>2
<1>7. ASSUME count2 < n, first2 > n,
             \A j \in (first2 - n) .. (first2 - 1) : j \in own2 /\ seq2[j].age <= w
      PROVE  alert2 <= lim + seq2[first2 - 1].age
  <2>1. /\ count2 \in Nat /\ count2 = count + 1 /\ first2 + d = first /\ alert2 = alert
        /\ first2 > n /\ count < n
    BY <1>2, <1>5, <1>7
  <2>2. first > n /\ first <= Len(seq) + 1
    BY <1>1, <2>1
  <2>3. ASSUME NEW j \in (first - n) .. (first - 1)
        PROVE  j \in own /\ seq[j].age <= w
    <3>1. j - d \in (first2 - n) .. (first2 - 1) /\ j - d \in 1 .. (Len(seq2) - 1)
      BY <1>1, <2>1, <2>2
    <3>2. seq2[j - d] = seq[j] /\ j - d + d = j
      <4>1. \A k \in 1 .. (Len(seq2) - 1) : seq2[k] = seq[k + d]
        BY <1>0 DEF OneMore
      <4>2. j - d + d = j
        BY <3>1
      <4>3. QED
        BY <3>1, <4>1, <4>2
    <3>3. j - d \in own2 /\ seq2[j - d].age <= w
      BY <1>7, <3>1
    <3>4. j - d < Len(seq2)
      BY <1>1, <3>1
    <3>5. j - d + d \in own
      BY <1>0, <3>3, <3>4 DEF StaysOwn
    <3>6. QED
      BY <3>2, <3>3, <3>5
  <2>4. alert <= lim + seq[first - 1].age
    BY <1>0, <2>1, <2>2, <2>3 DEF Accounted
  <2>5. first2 - 1 \in 1 .. (Len(seq2) - 1) /\ first2 - 1 + d = first - 1
    BY <1>1, <2>1
  <2>6. QED
    BY <1>0, <2>1, <2>4, <2>5 DEF OneMore
<1>8. /\ count2 = 0 <=> Len(seq2) = 0
      /\ count2 < n => count2 <= Len(seq2)
  BY <1>1, <1>2, <1>5
<1> HIDE DEF first
<1>9. QED
  BY <1>4, <1>6, <1>7, <1>8, Zenon DEF Accounted

\* Why an entry starts anew: the failure before is of another address, or the limit is over.
BeginsAnew(own, own2, seq2, d, age, lim) ==
  Len(seq2) - 1 \notin own2 \/ (age > lim /\ StaysOwn(own, own2, seq2, d))

\* A new entry is accounted for, when it is another address's (its latest failure before this
\* one is not its own) or the limit is over (audit_401: the entry starts anew).
LEMMA AccountedWhenAnew ==
  ASSUME NEW n \in Nat \ {0}, NEW w \in Nat, NEW lim \in Nat, w <= lim, NEW d \in 0 .. 1,
         NEW seq, NEW seq2, Len(seq) \in Nat, Len(seq2) \in Nat,
         d = 1 => Len(seq) >= n, NEW own, NEW own2,
         NEW count \in Nat, NEW age \in Nat, NEW alert \in Nat, NEW alert2 \in Nat,
         alert2 = IF n = 1 THEN 0 ELSE alert
  PROVE  /\ OneMore(seq, seq2, d) /\ Accounted(count, age, alert, seq, own, n, w, lim)
         /\ BeginsAnew(own, own2, seq2, d, age, lim)
         => Accounted(1, 0, alert2, seq2, own2, n, w, lim)
<1> DEFINE first == Len(seq) - count + 1
<1>1. SUFFICES ASSUME OneMore(seq, seq2, d),
                      Accounted(count, age, alert, seq, own, n, w, lim),
                      BeginsAnew(own, own2, seq2, d, age, lim)
               PROVE  Accounted(1, 0, alert2, seq2, own2, n, w, lim)
  OBVIOUS
<1>2. Len(seq2) = Len(seq) + 1 - d
  BY <1>1 DEF OneMore
<1>3. Len(seq2) >= 1
  BY <1>2
<1>4. seq2[Len(seq2)].age = 0
  BY <1>1 DEF OneMore
<1>5. ASSUME 1 >= n
      PROVE  alert2 = 0
  BY <1>5
<1>6. ASSUME 1 < n, Len(seq2) > n,
             \A j \in (Len(seq2) - n) .. (Len(seq2) - 1) : j \in own2 /\ seq2[j].age <= w
      PROVE  alert2 <= lim + seq2[Len(seq2) - 1].age
  <2>1. alert2 = alert /\ Len(seq) >= n /\ Len(seq2) - 1 \in 1 .. (Len(seq2) - 1)
    BY <1>2, <1>6
  <2>2. Len(seq2) - 1 \in own2 /\ seq2[Len(seq2) - 1].age <= w
    <3>1. Len(seq2) - 1 \in (Len(seq2) - n) .. (Len(seq2) - 1)
      OBVIOUS
    <3>2. QED
      BY <1>6, <3>1
  <2>3. seq2[Len(seq2) - 1] = seq[Len(seq)]
    <3>1. Len(seq2) - 1 + d = Len(seq)
      BY <1>2
    <3>2. QED
      BY <1>1, <2>1, <3>1 DEF OneMore
  <2>4. CASE count >= n
    BY <1>1, <2>1, <2>2, <2>3, <2>4 DEF Accounted
  <2>5. CASE count < n
    <3>2. count # 0
      BY <1>1, <2>1 DEF Accounted
    <3>3. /\ first \in 2 .. Len(seq) /\ first - d \in (Len(seq2) - n) .. (Len(seq2) - 1)
          /\ first - d \in 1 .. (Len(seq2) - 1) /\ first - d + d = first
      BY <1>2, <2>1, <2>5, <3>2
    <3>4. seq2[first - d] = seq[first]
      BY <1>1, <3>3 DEF OneMore
    <3>5. seq[first].age <= w
      BY <1>6, <3>3, <3>4
    <3>6. age = seq[first].age
      BY <1>1, <2>5, <3>3, <3>5 DEF Accounted
    <3>7. QED
      BY <1>1, <2>2, <3>5, <3>6 DEF BeginsAnew
  <2>6. QED
    BY <2>4, <2>5
<1>7. QED
  BY <1>2, <1>3, <1>4, <1>5, <1>6 DEF Accounted

\* seq2 is seq a unit of time later, ages being counted up to the limit old.
OneLater(seq, seq2, old) ==
  /\ Len(seq2) = Len(seq)
  /\ \A j \in 1 .. Len(seq) : /\ seq[j].age \in Nat
                              /\ seq2[j].age = IF seq[j].age < old THEN seq[j].age + 1 ELSE old

\* An entry stays accounted for when time passes, as long as the ages of failures and of
\* alerts are counted beyond all that is asked about them.
LEMMA AccountedWhenLater ==
  ASSUME NEW n \in Nat \ {0}, NEW w \in Nat, NEW lim \in Nat, w <= lim,
         NEW old \in Nat, w < old, NEW seq, NEW seq2, Len(seq) \in Nat, NEW own,
         NEW count \in Nat, NEW age \in Nat, NEW alert \in Nat,
         NEW age2 \in Nat, NEW alert2 \in Nat,
         count = 0 \/ age2 = IF age < lim + 1 THEN age + 1 ELSE lim + 1,
         alert2 <= alert + 1, alert2 <= lim + w + 1
  PROVE  OneLater(seq, seq2, old) /\ Accounted(count, age, alert, seq, own, n, w, lim)
         => Accounted(count, age2, alert2, seq2, own, n, w, lim)
<1> DEFINE first == Len(seq) - count + 1
<1>1. SUFFICES ASSUME OneLater(seq, seq2, old),
                      Accounted(count, age, alert, seq, own, n, w, lim)
               PROVE  Accounted(count, age2, alert2, seq2, own, n, w, lim)
  OBVIOUS
<1>2. Len(seq2) = Len(seq)
  BY <1>1 DEF OneLater
<1>3. ASSUME NEW j \in 1 .. Len(seq), seq2[j].age <= w
      PROVE  seq[j].age \in Nat /\ seq2[j].age = seq[j].age + 1 /\ seq[j].age <= w
  BY <1>1, <1>3 DEF OneLater
<1>4. /\ count = 0 <=> Len(seq2) = 0
      /\ count < n => count <= Len(seq)
  BY <1>1, <1>2 DEF Accounted
<1>5. ASSUME count >= n, age2 <= lim
      PROVE  alert2 <= age2
  <2>1. age2 = age + 1 /\ age <= lim
    BY <1>4, <1>5
  <2>2. alert <= age
    BY <1>1, <1>5, <2>1 DEF Accounted
  <2>3. QED
    BY <2>1, <2>2
<1>6. ASSUME count >= n, seq2[Len(seq)].age <= w
      PROVE  alert2 <= lim + seq2[Len(seq)].age
  <2>1. Len(seq) \in 1 .. Len(seq)
    BY <1>2, <1>4, <1>6
  <2>2. /\ seq[Len(seq)].age \in Nat /\ seq2[Len(seq)].age = seq[Len(seq)].age + 1
        /\ seq[Len(seq)].age <= w
    BY <1>3, <1>6, <2>1
  <2>3. alert <= lim + seq[Len(seq)].age
    BY <1>1, <1>6, <2>2 DEF Accounted
  <2>4. QED
    BY <2>2, <2>3
<1>7. ASSUME count < n, first \in 2 .. Len(seq), seq2[first].age <= w
      PROVE  age2 = seq2[first].age
  <2>1. /\ seq[first].age \in Nat /\ seq2[first].age = seq[first].age + 1
        /\ seq[first].age <= w
    BY <1>2, <1>3, <1>7
  <2>2. age = seq[first].age
    BY <1>1, <1>7, <2>1 DEF Accounted
  <2>3. count # 0
    BY <1>2, <1>7
  <2>4. QED
    BY <2>1, <2>2, <2>3
<1>8. ASSUME count < n, first > n,
             \A j \in (first - n) .. (first - 1) : j \in own /\ seq2[j].age <= w
      PROVE  alert2 <= lim + seq2[first - 1].age
  <2>1. first <= Len(seq) + 1 /\ first > n /\ first - 1 \in (first - n) .. (first - 1)
    BY <1>2, <1>8
  <2>2. ASSUME NEW j \in (first - n) .. (first - 1)
        PROVE  /\ j \in own
               /\ seq[j].age \in Nat /\ seq2[j].age = seq[j].age + 1 /\ seq[j].age <= w
    <3>1. j \in 1 .. Len(seq)
      BY <1>2, <2>1
    <3>2. QED
      BY <1>3, <1>8, <3>1
  <2>3. alert <= lim + seq[first - 1].age
    BY <1>1, <1>8, <2>1, <2>2 DEF Accounted
  <2>4. seq[first - 1].age \in Nat /\ seq2[first - 1].age = seq[first - 1].age + 1
    BY <2>1, <2>2
  <2>5. alert2 <= lim + (seq[first - 1].age + 1)
    BY <2>3, <2>4
  <2>6. QED
    BY <2>4, <2>5
<1>9. QED
  BY <1>2, <1>4, <1>5, <1>6, <1>7, <1>8 DEF Accounted

Failure == [ip : Ip, age : 0 .. FailureForgotten]
Dropped == IF Len(failures) < KeptFailures THEN 0 ELSE 1

\* The bounds of the history fit the constants of server.cpp, whatever they are.
LEMMA LimiterBounds ==
  /\ FailThreshold \in Nat \ {0} /\ FailGlobalThresh \in Nat \ {0}
  /\ FailWindow \in Nat /\ FailGlobalWindow \in Nat /\ IpLimit \in Nat /\ FailWindow <= IpLimit
  /\ FailureForgotten \in Nat /\ FailWindow < FailureForgotten
  /\ FailGlobalWindow < FailureForgotten
  /\ KeptFailures \in Nat \ {0}
  /\ KeptFailures >= FailThreshold /\ KeptFailures >= FailGlobalThresh
  /\ KeptFailures >= 2 * FailThreshold - 1 /\ KeptFailures >= 2 * FailGlobalThresh - 1
<1>1. /\ FailThreshold \in Nat \ {0} /\ FailGlobalThresh \in Nat \ {0}
      /\ FailWindow \in Nat /\ FailGlobalWindow \in Nat /\ FailCooldown \in Nat
  BY LimiterAssumption
<1>2. QED
  BY <1>1 DEF IpLimit, FailureForgotten, KeptFailures, Unmissable

\* The latest failures after one more of an address.
LEMMA FailureIsKept ==
  ASSUME LimiterTypeOK, NEW ip \in Ip, Audit401(ip)
  PROVE  /\ failures' \in Seq(Failure) /\ Len(failures') <= KeptFailures
         /\ failures' # << >> /\ failures'[Len(failures')].ip = ip
         /\ Dropped \in 0 .. 1 /\ OneMore(failures, failures', Dropped)
         /\ DOMAIN failures = 1 .. Len(failures) /\ DOMAIN failures' = 1 .. Len(failures')
<1> DEFINE new == [ip |-> ip, age |-> 0]
           all == Append(failures, new)
<1>1. /\ failures \in Seq(Failure) /\ Len(failures) \in Nat /\ Len(failures) <= KeptFailures
      /\ new \in Failure
  BY LimiterBounds DEF LimiterTypeOK, Failure
<1>2. /\ all \in Seq(Failure) /\ Len(all) = Len(failures) + 1
      /\ all[Len(failures) + 1] = new
      /\ \A j \in 1 .. Len(failures) : all[j] = failures[j]
  BY <1>1
<1>3. failures' = SubSeq(all, IF Len(all) > KeptFailures THEN 2 ELSE 1, Len(all))
  BY DEF Audit401
<1>4. /\ failures' \in Seq(Failure) /\ Len(failures') = Len(failures) + 1 - Dropped
      /\ \A j \in 1 .. Len(failures') : failures'[j] = all[j + Dropped]
  <2>1. CASE Len(failures) < KeptFailures
    <3>1. Dropped = 0
      BY <2>1 DEF Dropped
    <3>2. ~(Len(all) > KeptFailures)
      BY <1>1, <1>2, <2>1, LimiterBounds
    <3>3. failures' = SubSeq(all, 1, Len(all))
      BY <1>3, <3>2
    <3> HIDE DEF all
    <3>4. /\ failures' \in Seq(Failure) /\ Len(failures') = Len(all)
          /\ \A j \in 1 .. Len(failures') : failures'[j] = all[j]
      BY <1>2, <3>3
    <3>5. QED
      BY <1>1, <1>2, <3>1, <3>4
  <2>2. CASE Len(failures) = KeptFailures
    <3>1. failures' = SubSeq(all, 2, Len(all)) /\ Dropped = 1 /\ Len(all) >= 2
      <4>1. Len(all) > KeptFailures /\ Len(all) >= 2
        BY <1>1, <1>2, <2>2, LimiterBounds
      <4>2. Dropped = 1
        BY <1>1, <2>2, LimiterBounds DEF Dropped
      <4>3. QED
        BY <1>3, <4>1, <4>2
    <3> HIDE DEF all
    <3>2. /\ failures' \in Seq(Failure) /\ Len(failures') = Len(all) - 1
          /\ \A j \in 1 .. Len(failures') : failures'[j] = all[j + 1]
      BY <1>2, <3>1
    <3>3. QED
      BY <1>1, <1>2, <3>1, <3>2
  <2>3. Len(failures) < KeptFailures \/ Len(failures) = KeptFailures
    BY <1>1, LimiterBounds
  <2>4. QED
    BY <2>1, <2>2, <2>3
<1>5. Dropped \in 0 .. 1 /\ Len(failures') <= KeptFailures /\ Len(failures') >= 1
  BY <1>1, <1>4, LimiterBounds DEF Dropped
<1>6. failures'[Len(failures')] = new
  <2>1. Len(failures') + Dropped = Len(failures) + 1 /\ Len(failures') \in 1 .. Len(failures')
    BY <1>1, <1>4, <1>5
  <2>2. QED
    BY <1>2, <1>4, <2>1
<1>7. ASSUME NEW j \in 1 .. (Len(failures') - 1)
      PROVE  failures'[j] = failures[j + Dropped]
  <2>1. j \in 1 .. Len(failures') /\ j + Dropped \in 1 .. Len(failures)
    BY <1>1, <1>4, <1>5
  <2>2. QED
    BY <1>2, <1>4, <2>1
<1>8. ASSUME NEW j \in 1 .. Len(failures)
      PROVE  failures[j].age \in Nat
  <2>1. failures[j] \in Failure
    BY <1>1
  <2>2. QED
    BY <2>1, LimiterBounds DEF Failure
<1>9. QED
  BY <1>1, <1>4, <1>5, <1>6, <1>7, <1>8 DEF OneMore

\* The types of an entry, which the lemmas about it ask for.
LEMMA EntryTypes ==
  ASSUME LimiterTypeOK
  PROVE  /\ latest_fail.count \in 0 .. (FailThreshold + 1)
         /\ latest_fail.age \in 0 .. (IpLimit + 1) /\ latest_fail.alerted \in BOOLEAN
         /\ latest_fail.ip \in Ip \cup {NoIp}
         /\ global_fail.count \in 0 .. (FailGlobalThresh + 1)
         /\ global_fail.age \in 0 .. (FailGlobalWindow + 1) /\ global_fail.alerted \in BOOLEAN
         /\ ip_alert \in Nat /\ global_alert \in Nat
BY LimiterBounds DEF LimiterTypeOK, IpForgotten, GlobalForgotten

\* What audit_401 makes of the entry of the address: one of three things.
LEMMA IpEntryAfterFailure ==
  ASSUME LimiterTypeOK, NEW ip \in Ip, Audit401(ip)
  PROVE  LET n == FailThreshold
             e == latest_fail
         IN  /\ latest_fail'.ip = ip /\ latest_fail'.alerted \in BOOLEAN /\ ip_alert' \in Nat
             /\ \/ /\ e.ip # ip \/ e.age > IpLimit
                   /\ latest_fail' = [ip |-> ip, age |-> 0, count |-> 1, alerted |-> (n = 1)]
                   /\ ip_alert' = IF n = 1 THEN 0 ELSE ip_alert
                \/ /\ e.ip = ip /\ e.age <= IpLimit /\ latest_fail'.age = e.age
                   /\ latest_fail'.count = IF e.count <= n THEN e.count + 1 ELSE n + 1
                   /\ latest_fail'.alerted <=> (e.alerted \/ latest_fail'.count = n)
                   /\ ip_alert' = IF latest_fail'.count = n /\ ~e.alerted THEN 0 ELSE ip_alert
                   /\ latest_fail' \in [ip : Ip \cup {NoIp}, age : 0 .. (IpLimit + 1),
                                        count : 0 .. (n + 1), alerted : BOOLEAN]
<1>1. /\ latest_fail' = [CountIp(ip) EXCEPT !.alerted = @ \/ AlertsIp(ip)]
      /\ ip_alert' = IF AlertsIp(ip) THEN 0 ELSE ip_alert
  BY DEF Audit401
<1>2. latest_fail \in [ip : Ip \cup {NoIp}, age : 0 .. (IpLimit + 1),
                      count : 0 .. (FailThreshold + 1), alerted : BOOLEAN]
  BY DEF LimiterTypeOK
<1>3. CASE latest_fail.ip # ip \/ latest_fail.age > IpLimit
  <2>1. CountIp(ip) = [ip |-> ip, age |-> 0, count |-> 1, alerted |-> FALSE]
    BY <1>3 DEF CountIp, NewEntry
  <2>2. AlertsIp(ip) <=> FailThreshold = 1
    BY <2>1, LimiterBounds DEF AlertsIp, Due
  <2>3. latest_fail' = [ip |-> ip, age |-> 0, count |-> 1, alerted |-> (FailThreshold = 1)]
    BY <1>1, <2>1, <2>2
  <2>4. latest_fail'.ip = ip /\ latest_fail'.alerted \in BOOLEAN
    BY <2>3
  <2>5. ip_alert' = (IF FailThreshold = 1 THEN 0 ELSE ip_alert) /\ ip_alert' \in Nat
    BY <1>1, <2>2, EntryTypes
  <2>6. QED
    BY <1>3, <2>3, <2>4, <2>5
<1>4. CASE latest_fail.ip = ip /\ latest_fail.age <= IpLimit
  <2>1. CountIp(ip) = [latest_fail EXCEPT !.count = AtMost(@ + 1, FailThreshold + 1)]
    BY <1>2, <1>4, LimiterBounds DEF CountIp
  <2>2. /\ CountIp(ip).count = IF latest_fail.count <= FailThreshold THEN latest_fail.count + 1
                                                                   ELSE FailThreshold + 1
        /\ CountIp(ip).count \in 0 .. (FailThreshold + 1)
        /\ CountIp(ip).ip = ip /\ CountIp(ip).age = latest_fail.age
        /\ CountIp(ip).alerted = latest_fail.alerted
    BY <1>2, <1>4, <2>1, LimiterBounds DEF AtMost
  <2>3. /\ latest_fail'.ip = ip /\ latest_fail'.age = latest_fail.age
        /\ latest_fail'.count = CountIp(ip).count
    BY <1>1, <1>2, <2>1, <2>2
  <2>4. latest_fail'.alerted = (latest_fail.alerted \/ AlertsIp(ip))
    BY <1>1, <1>2, <2>1, <2>2
  <2>5. AlertsIp(ip) <=> latest_fail'.count = FailThreshold /\ ~latest_fail.alerted
    BY <2>2, <2>3 DEF AlertsIp, Due
  <2>6. latest_fail' \in [ip : Ip \cup {NoIp}, age : 0 .. (IpLimit + 1),
                         count : 0 .. (FailThreshold + 1), alerted : BOOLEAN]
    BY <1>1, <1>2, <2>1, <2>2
  <2>7. latest_fail'.alerted <=> (latest_fail.alerted \/ latest_fail'.count = FailThreshold)
    BY <2>4, <2>5
  <2>8. /\ ip_alert' = IF latest_fail'.count = FailThreshold /\ ~latest_fail.alerted
                       THEN 0 ELSE ip_alert
        /\ ip_alert' \in Nat
    BY <1>1, <2>5, EntryTypes
  <2>9. QED
    BY <1>4, <2>2, <2>3, <2>6, <2>7, <2>8
<1>5. QED
  BY <1>2, <1>3, <1>4, LimiterBounds

\* What audit_401 makes of the counter of everybody: one of two things.
LEMMA GlobalEntryAfterFailure ==
  ASSUME LimiterTypeOK, NEW ip \in Ip, Audit401(ip)
  PROVE  LET n == FailGlobalThresh
             e == global_fail
         IN  /\ global_fail'.alerted \in BOOLEAN /\ global_alert' \in Nat
             /\ \/ /\ e.age > FailGlobalWindow
                   /\ global_fail' = [age |-> 0, count |-> 1, alerted |-> (n = 1)]
                   /\ global_alert' = IF n = 1 THEN 0 ELSE global_alert
                \/ /\ e.age <= FailGlobalWindow /\ global_fail'.age = e.age
                   /\ global_fail'.count = IF e.count <= n THEN e.count + 1 ELSE n + 1
                   /\ global_fail'.alerted <=> (e.alerted \/ global_fail'.count = n)
                   /\ global_alert' = IF global_fail'.count = n /\ ~e.alerted THEN 0
                                                                             ELSE global_alert
                   /\ global_fail' \in [age : 0 .. (FailGlobalWindow + 1), count : 0 .. (n + 1),
                                        alerted : BOOLEAN]
<1>1. /\ global_fail' = [CountGlobal EXCEPT !.alerted = @ \/ AlertsGlobal]
      /\ global_alert' = IF AlertsGlobal THEN 0 ELSE global_alert
  BY DEF Audit401
<1>2. global_fail \in [age : 0 .. (FailGlobalWindow + 1),
                      count : 0 .. (FailGlobalThresh + 1), alerted : BOOLEAN]
  BY DEF LimiterTypeOK
<1>3. CASE global_fail.age > FailGlobalWindow
  <2>1. CountGlobal = [age |-> 0, count |-> 1, alerted |-> FALSE]
    BY <1>3 DEF CountGlobal
  <2>2. AlertsGlobal <=> FailGlobalThresh = 1
    BY <2>1, LimiterBounds DEF AlertsGlobal, Due
  <2>3. global_fail' = [age |-> 0, count |-> 1, alerted |-> (FailGlobalThresh = 1)]
    BY <1>1, <2>1, <2>2
  <2>4. global_fail'.alerted \in BOOLEAN
    BY <2>3
  <2>5. global_alert' = (IF FailGlobalThresh = 1 THEN 0 ELSE global_alert) /\ global_alert' \in Nat
    BY <1>1, <2>2, EntryTypes
  <2>6. QED
    BY <1>3, <2>3, <2>4, <2>5
<1>4. CASE global_fail.age <= FailGlobalWindow
  <2>1. CountGlobal = [global_fail EXCEPT !.count = AtMost(@ + 1, FailGlobalThresh + 1)]
    BY <1>2, <1>4, LimiterBounds DEF CountGlobal
  <2>2. /\ CountGlobal.count = IF global_fail.count <= FailGlobalThresh
                               THEN global_fail.count + 1 ELSE FailGlobalThresh + 1
        /\ CountGlobal.count \in 0 .. (FailGlobalThresh + 1)
        /\ CountGlobal.age = global_fail.age /\ CountGlobal.alerted = global_fail.alerted
    BY <1>2, <2>1, LimiterBounds DEF AtMost
  <2>3. global_fail'.age = global_fail.age /\ global_fail'.count = CountGlobal.count
    BY <1>1, <1>2, <2>1, <2>2
  <2>4. global_fail'.alerted = (global_fail.alerted \/ AlertsGlobal)
    BY <1>1, <1>2, <2>1, <2>2
  <2>5. AlertsGlobal <=> global_fail'.count = FailGlobalThresh /\ ~global_fail.alerted
    BY <2>2, <2>3 DEF AlertsGlobal, Due
  <2>6. global_fail' \in [age : 0 .. (FailGlobalWindow + 1),
                         count : 0 .. (FailGlobalThresh + 1), alerted : BOOLEAN]
    BY <1>1, <1>2, <2>1, <2>2
  <2>7. global_fail'.alerted <=> (global_fail.alerted \/ global_fail'.count = FailGlobalThresh)
    BY <2>4, <2>5
  <2>8. /\ global_alert' = IF global_fail'.count = FailGlobalThresh /\ ~global_fail.alerted
                           THEN 0 ELSE global_alert
        /\ global_alert' \in Nat
    BY <1>1, <2>5, EntryTypes
  <2>9. QED
    BY <1>4, <2>2, <2>3, <2>6, <2>7, <2>8
<1>5. QED
  BY <1>2, <1>3, <1>4, LimiterBounds

\* A failed login keeps the types of the limiter.
LEMMA FailureTypeOK ==
  ASSUME LimiterTypeOK, NEW ip \in Ip, Audit401(ip)
  PROVE  LimiterTypeOK'
<1>1. latest_fail' \in [ip : Ip \cup {NoIp}, age : 0 .. (IpLimit + 1),
                       count : 0 .. (FailThreshold + 1), alerted : BOOLEAN]
  BY IpEntryAfterFailure, LimiterBounds
<1>2. global_fail' \in [age : 0 .. (FailGlobalWindow + 1),
                       count : 0 .. (FailGlobalThresh + 1), alerted : BOOLEAN]
  BY GlobalEntryAfterFailure, LimiterBounds
<1>3. failures' \in Seq([ip : Ip, age : 0 .. FailureForgotten]) /\ Len(failures') <= KeptFailures
  BY FailureIsKept DEF Failure
<1>4. ip_alert' \in 0 .. IpForgotten /\ global_alert' \in 0 .. GlobalForgotten
  <2>1. IpForgotten \in Nat /\ GlobalForgotten \in Nat
    BY LimiterBounds DEF IpForgotten, GlobalForgotten
  <2>2. QED
    BY <2>1 DEF Audit401, LimiterTypeOK
<1>5. QED
  BY <1>1, <1>2, <1>3, <1>4 DEF LimiterTypeOK

\* A failed login keeps the invariant of the limiter: it is counted in both entries, or
\* begins either of them anew (audit_401).
LEMMA FailureInv ==
  ASSUME LimiterInv, NEW ip \in Ip, Audit401(ip)
  PROVE  LimiterInv'
<1>1. /\ LimiterTypeOK /\ IpAccounted /\ GlobalAccounted
      /\ latest_fail.alerted <=> latest_fail.count >= FailThreshold
      /\ global_fail.alerted <=> global_fail.count >= FailGlobalThresh
      /\ latest_fail.count = 0 <=> latest_fail.ip = NoIp
      /\ failures # << >> => failures[Len(failures)].ip = latest_fail.ip
  BY DEF LimiterInv
<1>2. LimiterTypeOK'
  BY <1>1, FailureTypeOK
<1>3. /\ failures' \in Seq(Failure) /\ Len(failures) \in Nat
      /\ Len(failures') \in Nat /\ failures' # << >> /\ failures'[Len(failures')].ip = ip
      /\ Dropped \in 0 .. 1 /\ OneMore(failures, failures', Dropped)
      /\ DOMAIN failures = 1 .. Len(failures) /\ DOMAIN failures' = 1 .. Len(failures')
  <2>1. failures \in Seq(Failure)
    BY <1>1 DEF LimiterTypeOK, Failure
  <2>2. failures' \in Seq(Failure)
    BY <1>1, FailureIsKept
  <2>3. Len(failures) \in Nat /\ Len(failures') \in Nat
    BY <2>1, <2>2
  <2>4. QED
    BY <1>1, <2>1, <2>2, <2>3, FailureIsKept
<1>4. /\ Dropped = 1 => Len(failures) >= FailThreshold
      /\ Dropped = 1 => Len(failures) >= FailGlobalThresh
      /\ Len(failures') = Len(failures) + 1 - Dropped
      /\ \A j \in 1 .. (Len(failures') - 1) : failures'[j] = failures[j + Dropped]
  BY <1>3, LimiterBounds DEF Dropped, OneMore
<1>5. /\ latest_fail.count \in Nat /\ latest_fail.age \in Nat /\ latest_fail.alerted \in BOOLEAN
      /\ global_fail.count \in Nat /\ global_fail.age \in Nat /\ global_fail.alerted \in BOOLEAN
      /\ ip_alert \in Nat /\ global_alert \in Nat
  BY <1>1, EntryTypes, LimiterBounds
<1>6. /\ latest_fail'.count \in Nat /\ latest_fail'.alerted \in BOOLEAN /\ ip_alert' \in Nat
      /\ global_fail'.count \in Nat /\ global_fail'.alerted \in BOOLEAN /\ global_alert' \in Nat
  BY <1>2, IpEntryAfterFailure, GlobalEntryAfterFailure, LimiterBounds DEF LimiterTypeOK,
     IpForgotten, GlobalForgotten
<1>7. ip # NoIp /\ latest_fail'.ip = ip /\ latest_fail'.count # 0
  <2>1. ip # NoIp /\ latest_fail'.ip = ip
    BY <1>1, IpEntryAfterFailure, LimiterAssumption
  <2>2. \/ latest_fail' = [ip |-> ip, age |-> 0, count |-> 1, alerted |-> (FailThreshold = 1)]
        \/ latest_fail'.count = IF latest_fail.count <= FailThreshold
                                THEN latest_fail.count + 1 ELSE FailThreshold + 1
    BY <1>1, IpEntryAfterFailure
  <2>3. QED
    BY <1>5, <2>1, <2>2, LimiterBounds
<1>8. latest_fail.ip = ip => StaysOwn(OwnFailures, OwnFailures', failures', Dropped)
  <2>1. SUFFICES ASSUME latest_fail.ip = ip, NEW j \in OwnFailures', j < Len(failures')
                 PROVE  j + Dropped \in OwnFailures
    BY DEF StaysOwn
  <2>2. j \in 1 .. (Len(failures') - 1) /\ failures'[j].ip = ip
    BY <1>3, <1>7, <2>1 DEF OwnFailures
  <2>3. j + Dropped \in 1 .. Len(failures)
    BY <1>3, <1>4, <2>2
  <2>4. failures[j + Dropped].ip = ip
    BY <1>4, <2>2
  <2>5. QED
    BY <1>3, <2>1, <2>3, <2>4 DEF OwnFailures
<1>9. latest_fail.ip # ip => Len(failures') - 1 \notin OwnFailures'
  <2>1. SUFFICES ASSUME latest_fail.ip # ip, Len(failures') - 1 \in OwnFailures'
                 PROVE  FALSE
    OBVIOUS
  <2>2. Len(failures') - 1 \in 1 .. (Len(failures') - 1) /\ failures'[Len(failures') - 1].ip = ip
    BY <1>3, <1>7, <2>1 DEF OwnFailures
  <2>3. Len(failures') - 1 + Dropped = Len(failures) /\ Len(failures) >= 1
    BY <1>3, <1>4, <2>2
  <2>4. failures[Len(failures)].ip = ip
    BY <1>4, <2>2, <2>3
  <2>5. failures # << >>
    BY <2>3
  <2>6. QED
    BY <1>1, <2>1, <2>4, <2>5
<1>10. /\ Len(failures) \in Nat /\ Len(failures') \in Nat
       /\ Dropped \in 0 .. 1 /\ OneMore(failures, failures', Dropped)
       /\ Dropped = 1 => Len(failures) >= FailThreshold
       /\ Dropped = 1 => Len(failures) >= FailGlobalThresh
  BY <1>3, <1>4
<1>11. IpAccounted'
  <2>1. CASE /\ latest_fail.ip # ip \/ latest_fail.age > IpLimit
             /\ latest_fail' = [ip |-> ip, age |-> 0, count |-> 1,
                                alerted |-> (FailThreshold = 1)]
             /\ ip_alert' = IF FailThreshold = 1 THEN 0 ELSE ip_alert
    <3>1. latest_fail'.count = 1 /\ latest_fail'.age = 0
      BY <2>1
    <3>2. BeginsAnew(OwnFailures, OwnFailures', failures', Dropped, latest_fail.age, IpLimit)
      <4>1. latest_fail.ip # ip \/ (latest_fail.ip = ip /\ latest_fail.age > IpLimit)
        BY <2>1
      <4>2. \/ Len(failures') - 1 \notin OwnFailures'
            \/ /\ latest_fail.age > IpLimit
               /\ StaysOwn(OwnFailures, OwnFailures', failures', Dropped)
        BY <1>8, <1>9, <4>1
      <4>3. QED
        BY <4>2 DEF BeginsAnew
    <3>3. Accounted(1, 0, ip_alert', failures', OwnFailures', FailThreshold, FailWindow, IpLimit)
      <4>1. ip_alert' = IF FailThreshold = 1 THEN 0 ELSE ip_alert
        BY <2>1
      <4>2. /\ FailThreshold \in Nat \ {0} /\ FailWindow \in Nat /\ IpLimit \in Nat
            /\ FailWindow <= IpLimit
        BY LimiterBounds
      <4>3. /\ latest_fail.count \in Nat /\ latest_fail.age \in Nat
            /\ ip_alert \in Nat /\ ip_alert' \in Nat
        BY <1>5, <1>6
      <4>4. Accounted(latest_fail.count, latest_fail.age, ip_alert, failures, OwnFailures,
                      FailThreshold, FailWindow, IpLimit)
        BY <1>1 DEF IpAccounted
      <4>5. QED
        BY <1>10, <3>2, <4>1, <4>2, <4>3, <4>4, AccountedWhenAnew
    <3>4. QED
      BY <3>1, <3>3 DEF IpAccounted
  <2>2. CASE /\ latest_fail.ip = ip /\ latest_fail.age <= IpLimit
             /\ latest_fail'.age = latest_fail.age
             /\ latest_fail'.count = IF latest_fail.count <= FailThreshold
                                     THEN latest_fail.count + 1 ELSE FailThreshold + 1
             /\ ip_alert' = IF latest_fail'.count = FailThreshold /\ ~latest_fail.alerted
                            THEN 0 ELSE ip_alert
    <3>1. ip_alert' = IF latest_fail'.count = FailThreshold /\ latest_fail.count < FailThreshold
                      THEN 0 ELSE ip_alert
      BY <1>1, <1>5, <2>2, LimiterBounds
    <3>2. Accounted(latest_fail'.count, latest_fail.age, ip_alert', failures', OwnFailures',
                    FailThreshold, FailWindow, IpLimit)
      <4>1. FailThreshold \in Nat \ {0} /\ FailWindow \in Nat /\ IpLimit \in Nat
        BY LimiterBounds
      <4>2. /\ latest_fail.count \in Nat /\ latest_fail.age \in Nat
            /\ ip_alert \in Nat /\ latest_fail'.count \in Nat /\ ip_alert' \in Nat
        BY <1>5, <1>6
      <4>3. Accounted(latest_fail.count, latest_fail.age, ip_alert, failures, OwnFailures,
                      FailThreshold, FailWindow, IpLimit)
        BY <1>1 DEF IpAccounted
      <4>4. /\ latest_fail.age <= IpLimit
            /\ StaysOwn(OwnFailures, OwnFailures', failures', Dropped)
            /\ latest_fail'.count = IF latest_fail.count <= FailThreshold
                                     THEN latest_fail.count + 1 ELSE FailThreshold + 1
        BY <1>8, <2>2
      <4>5. QED
        BY <1>10, <3>1, <4>1, <4>2, <4>3, <4>4, AccountedWhenCounted
    <3>3. QED
      BY <2>2, <3>2 DEF IpAccounted
  <2>3. QED
    BY <1>1, <2>1, <2>2, IpEntryAfterFailure
<1>12. StaysOwn(DOMAIN failures, DOMAIN failures', failures', Dropped)
  BY <1>3, <1>4 DEF StaysOwn
<1>13. GlobalAccounted'
  <2>1. CASE /\ global_fail.age > FailGlobalWindow
             /\ global_fail' = [age |-> 0, count |-> 1, alerted |-> (FailGlobalThresh = 1)]
             /\ global_alert' = IF FailGlobalThresh = 1 THEN 0 ELSE global_alert
    <3>1. global_fail'.count = 1 /\ global_fail'.age = 0
      BY <2>1
    <3>2. Accounted(1, 0, global_alert', failures', DOMAIN failures', FailGlobalThresh,
                    FailGlobalWindow, FailGlobalWindow)
      <4>1. /\ global_alert' = IF FailGlobalThresh = 1 THEN 0 ELSE global_alert
            /\ BeginsAnew(DOMAIN failures, DOMAIN failures', failures', Dropped,
                          global_fail.age, FailGlobalWindow)
        BY <1>12, <2>1 DEF BeginsAnew
      <4>2. /\ FailGlobalThresh \in Nat \ {0} /\ FailGlobalWindow \in Nat
            /\ FailGlobalWindow <= FailGlobalWindow
        BY LimiterBounds
      <4>3. /\ global_fail.count \in Nat /\ global_fail.age \in Nat
            /\ global_alert \in Nat /\ global_alert' \in Nat
        BY <1>5, <1>6
      <4>4. Accounted(global_fail.count, global_fail.age, global_alert, failures,
                      DOMAIN failures, FailGlobalThresh, FailGlobalWindow, FailGlobalWindow)
        BY <1>1 DEF GlobalAccounted
      <4>5. QED
        BY <1>10, <4>1, <4>2, <4>3, <4>4, AccountedWhenAnew
    <3>3. QED
      BY <3>1, <3>2 DEF GlobalAccounted
  <2>2. CASE /\ global_fail.age <= FailGlobalWindow /\ global_fail'.age = global_fail.age
             /\ global_fail'.count = IF global_fail.count <= FailGlobalThresh
                                     THEN global_fail.count + 1 ELSE FailGlobalThresh + 1
             /\ global_alert' = IF global_fail'.count = FailGlobalThresh /\ ~global_fail.alerted
                                THEN 0 ELSE global_alert
    <3>1. global_alert' = IF global_fail'.count = FailGlobalThresh
                               /\ global_fail.count < FailGlobalThresh
                          THEN 0 ELSE global_alert
      BY <1>1, <1>5, <2>2, LimiterBounds
    <3>2. Accounted(global_fail'.count, global_fail.age, global_alert', failures',
                    DOMAIN failures', FailGlobalThresh, FailGlobalWindow, FailGlobalWindow)
      <4>1. FailGlobalThresh \in Nat \ {0} /\ FailGlobalWindow \in Nat
        BY LimiterBounds
      <4>2. /\ global_fail.count \in Nat /\ global_fail.age \in Nat
            /\ global_alert \in Nat /\ global_fail'.count \in Nat /\ global_alert' \in Nat
        BY <1>5, <1>6
      <4>3. Accounted(global_fail.count, global_fail.age, global_alert, failures,
                      DOMAIN failures, FailGlobalThresh, FailGlobalWindow, FailGlobalWindow)
        BY <1>1 DEF GlobalAccounted
      <4>4. /\ global_fail.age <= FailGlobalWindow
            /\ global_fail'.count = IF global_fail.count <= FailGlobalThresh
                                     THEN global_fail.count + 1 ELSE FailGlobalThresh + 1
        BY <2>2
      <4>5. QED
        BY <1>12, <1>10, <3>1, <4>1, <4>2, <4>3, <4>4, AccountedWhenCounted
    <3>3. QED
      BY <2>2, <3>2 DEF GlobalAccounted
  <2>3. QED
    BY <1>1, <2>1, <2>2, GlobalEntryAfterFailure
<1>14. /\ latest_fail'.alerted <=> latest_fail'.count >= FailThreshold
       /\ global_fail'.alerted <=> global_fail'.count >= FailGlobalThresh
  <2>1. latest_fail'.alerted <=> latest_fail'.count >= FailThreshold
    BY <1>1, <1>5, IpEntryAfterFailure, LimiterBounds
  <2>2. global_fail'.alerted <=> global_fail'.count >= FailGlobalThresh
    BY <1>1, <1>5, GlobalEntryAfterFailure, LimiterBounds
  <2>3. QED
    BY <2>1, <2>2
<1>15. QED
  BY <1>2, <1>3, <1>7, <1>11, <1>13, <1>14 DEF LimiterInv

\* The passing of time keeps the invariant of the limiter.
LEMMA LaterInv ==
  ASSUME LimiterInv, LimiterTime
  PROVE  LimiterInv'
<1>1. /\ LimiterTypeOK /\ IpAccounted /\ GlobalAccounted
      /\ latest_fail.count = 0 <=> latest_fail.ip = NoIp
      /\ latest_fail.alerted <=> latest_fail.count >= FailThreshold
      /\ global_fail.alerted <=> global_fail.count >= FailGlobalThresh
      /\ failures # << >> => failures[Len(failures)].ip = latest_fail.ip
  BY DEF LimiterInv
<1>2. /\ failures \in Seq(Failure) /\ Len(failures) \in Nat /\ Len(failures) <= KeptFailures
      /\ DOMAIN failures = 1 .. Len(failures)
  BY <1>1 DEF LimiterTypeOK, Failure
<1>3. ASSUME NEW j \in 1 .. Len(failures)
      PROVE  /\ failures[j].age \in Nat /\ failures'[j] \in Failure
             /\ failures'[j].ip = failures[j].ip
             /\ failures'[j].age = IF failures[j].age < FailureForgotten THEN failures[j].age + 1
                                                                       ELSE FailureForgotten
  <2>1. failures[j] \in Failure
    BY <1>2
  <2>2. failures'[j] = [failures[j] EXCEPT !.age = Older(@, FailureForgotten)]
    BY <1>2 DEF LimiterTime
  <2>3. failures[j].age \in 0 .. FailureForgotten /\ failures[j].ip \in Ip
    BY <2>1 DEF Failure
  <2>4. Older(failures[j].age, FailureForgotten) =
          IF failures[j].age < FailureForgotten THEN failures[j].age + 1 ELSE FailureForgotten
    BY <2>3, LimiterBounds DEF Older, AtMost
  <2>5. Older(failures[j].age, FailureForgotten) \in 0 .. FailureForgotten
    BY <2>3, <2>4, LimiterBounds
  <2>6. failures'[j] \in Failure /\ failures'[j].ip = failures[j].ip
        /\ failures'[j].age = Older(failures[j].age, FailureForgotten)
    BY <2>1, <2>2, <2>5 DEF Failure
  <2>7. QED
    BY <2>3, <2>4, <2>6, LimiterBounds
<1>4. /\ failures' \in Seq(Failure) /\ Len(failures') = Len(failures)
      /\ DOMAIN failures' = 1 .. Len(failures)
  <2>1. failures' = [j \in 1 .. Len(failures) |->
                      [failures[j] EXCEPT !.age = Older(@, FailureForgotten)]]
    BY <1>2 DEF LimiterTime
  <2>2. failures' \in [1 .. Len(failures) -> Failure]
    BY <1>3, <2>1
  <2>3. QED
    BY <1>2, <2>2
<1>5. OneLater(failures, failures', FailureForgotten)
  BY <1>3, <1>4 DEF OneLater
<1>6. /\ latest_fail.count \in Nat /\ latest_fail.age \in Nat /\ global_fail.count \in Nat
      /\ global_fail.age \in Nat /\ ip_alert \in Nat /\ global_alert \in Nat
  BY <1>1, EntryTypes, LimiterBounds
<1>7. /\ latest_fail' \in [ip : Ip \cup {NoIp}, age : 0 .. (IpLimit + 1),
                          count : 0 .. (FailThreshold + 1), alerted : BOOLEAN]
      /\ latest_fail'.ip = latest_fail.ip /\ latest_fail'.count = latest_fail.count
      /\ latest_fail'.alerted = latest_fail.alerted /\ latest_fail'.age \in Nat
      /\ latest_fail.count = 0 \/
         latest_fail'.age = IF latest_fail.age < IpLimit + 1 THEN latest_fail.age + 1
                                                            ELSE IpLimit + 1
  <2> DEFINE age == IF latest_fail.ip = NoIp THEN 0 ELSE Older(latest_fail.age, IpLimit + 1)
  <2>1. latest_fail' = [latest_fail EXCEPT !.age = age]
    BY DEF LimiterTime
  <2>2. latest_fail \in [ip : Ip \cup {NoIp}, age : 0 .. (IpLimit + 1),
                        count : 0 .. (FailThreshold + 1), alerted : BOOLEAN]
    BY <1>1 DEF LimiterTypeOK
  <2>3. /\ age \in 0 .. (IpLimit + 1)
        /\ latest_fail.ip = NoIp \/ age = IF latest_fail.age < IpLimit + 1
                                          THEN latest_fail.age + 1 ELSE IpLimit + 1
    <3>1. IpLimit \in Nat /\ latest_fail.age \in 0 .. (IpLimit + 1)
      BY <2>2, LimiterBounds
    <3>2. QED
      BY <3>1 DEF Older, AtMost
  <2> HIDE DEF age
  <2>4. /\ latest_fail' \in [ip : Ip \cup {NoIp}, age : 0 .. (IpLimit + 1),
                            count : 0 .. (FailThreshold + 1), alerted : BOOLEAN]
        /\ latest_fail'.ip = latest_fail.ip /\ latest_fail'.count = latest_fail.count
        /\ latest_fail'.alerted = latest_fail.alerted /\ latest_fail'.age = age
    BY <2>1, <2>2, <2>3
  <2>5. QED
    BY <1>1, <2>3, <2>4, LimiterBounds
<1>8. /\ global_fail' \in [age : 0 .. (FailGlobalWindow + 1),
                          count : 0 .. (FailGlobalThresh + 1), alerted : BOOLEAN]
      /\ global_fail'.count = global_fail.count /\ global_fail'.alerted = global_fail.alerted
      /\ global_fail'.age \in Nat
      /\ global_fail'.age = IF global_fail.age < FailGlobalWindow + 1 THEN global_fail.age + 1
                                                                     ELSE FailGlobalWindow + 1
  <2> DEFINE age == Older(global_fail.age, FailGlobalWindow + 1)
  <2>1. global_fail' = [global_fail EXCEPT !.age = age]
    BY DEF LimiterTime
  <2>2. global_fail \in [age : 0 .. (FailGlobalWindow + 1),
                        count : 0 .. (FailGlobalThresh + 1), alerted : BOOLEAN]
    BY <1>1 DEF LimiterTypeOK
  <2>3. /\ age \in 0 .. (FailGlobalWindow + 1)
        /\ age = IF global_fail.age < FailGlobalWindow + 1 THEN global_fail.age + 1
                                                           ELSE FailGlobalWindow + 1
    BY <1>1, EntryTypes, LimiterBounds DEF Older, AtMost
  <2> HIDE DEF age
  <2>4. /\ global_fail' \in [age : 0 .. (FailGlobalWindow + 1),
                            count : 0 .. (FailGlobalThresh + 1), alerted : BOOLEAN]
        /\ global_fail'.count = global_fail.count /\ global_fail'.alerted = global_fail.alerted
        /\ global_fail'.age = age
    BY <2>1, <2>2, <2>3
  <2>5. QED
    BY <2>3, <2>4, LimiterBounds
<1>9. /\ ip_alert' \in 0 .. IpForgotten /\ ip_alert' <= ip_alert + 1
      /\ global_alert' \in 0 .. GlobalForgotten /\ global_alert' <= global_alert + 1
      /\ IpForgotten \in Nat /\ GlobalForgotten \in Nat
  <2>1. IpForgotten \in Nat /\ GlobalForgotten \in Nat
    BY LimiterBounds DEF IpForgotten, GlobalForgotten
  <2>2. ip_alert' = Older(ip_alert, IpForgotten) /\ global_alert' = Older(global_alert, GlobalForgotten)
    BY DEF LimiterTime
  <2>3. QED
    BY <1>6, <2>1, <2>2 DEF Older, AtMost
<1>10. LimiterTypeOK'
  BY <1>2, <1>4, <1>7, <1>8, <1>9 DEF LimiterTypeOK, Failure
<1>11. OwnFailures' = OwnFailures
  BY <1>2, <1>3, <1>4, <1>7 DEF OwnFailures
<1>12. IpAccounted'
  <2>1. /\ ip_alert' \in Nat /\ ip_alert' <= ip_alert + 1
        /\ ip_alert' <= IpLimit + FailWindow + 1
    BY <1>9, LimiterBounds DEF IpForgotten
  <2>2. Accounted(latest_fail.count, latest_fail'.age, ip_alert', failures', OwnFailures,
                  FailThreshold, FailWindow, IpLimit)
    <3>1. Accounted(latest_fail.count, latest_fail.age, ip_alert, failures, OwnFailures,
                    FailThreshold, FailWindow, IpLimit)
      BY <1>1 DEF IpAccounted
    <3>2. /\ FailThreshold \in Nat \ {0} /\ FailWindow \in Nat /\ IpLimit \in Nat
          /\ FailWindow <= IpLimit
          /\ FailureForgotten \in Nat /\ FailWindow < FailureForgotten
      BY LimiterBounds
    <3>3. /\ latest_fail.count \in Nat /\ latest_fail.age \in Nat /\ ip_alert \in Nat
          /\ latest_fail'.age \in Nat
          /\ latest_fail.count = 0 \/
             latest_fail'.age = IF latest_fail.age < IpLimit + 1
                                THEN latest_fail.age + 1 ELSE IpLimit + 1
      BY <1>6, <1>7
    <3>4. QED
      BY <1>2, <1>5, <2>1, <3>1, <3>2, <3>3, AccountedWhenLater
  <2>3. QED
    BY <1>7, <1>11, <2>2 DEF IpAccounted
<1>13. GlobalAccounted'
  <2>1. /\ global_alert' \in Nat /\ global_alert' <= global_alert + 1
        /\ global_alert' <= FailGlobalWindow + FailGlobalWindow + 1
    BY <1>9, LimiterBounds DEF GlobalForgotten
  <2>2. Accounted(global_fail.count, global_fail'.age, global_alert', failures', DOMAIN failures,
                  FailGlobalThresh, FailGlobalWindow, FailGlobalWindow)
    <3>1. Accounted(global_fail.count, global_fail.age, global_alert, failures,
                    DOMAIN failures, FailGlobalThresh, FailGlobalWindow, FailGlobalWindow)
      BY <1>1 DEF GlobalAccounted
    <3>2. /\ FailGlobalThresh \in Nat \ {0} /\ FailGlobalWindow \in Nat
          /\ FailGlobalWindow <= FailGlobalWindow
          /\ FailureForgotten \in Nat /\ FailGlobalWindow < FailureForgotten
      BY LimiterBounds
    <3>3. /\ global_fail.count \in Nat /\ global_fail.age \in Nat /\ global_alert \in Nat
          /\ global_fail'.age \in Nat
          /\ global_fail'.age = IF global_fail.age < FailGlobalWindow + 1
                                THEN global_fail.age + 1 ELSE FailGlobalWindow + 1
      BY <1>6, <1>8
    <3>4. QED
      BY <1>2, <1>5, <2>1, <3>1, <3>2, <3>3, AccountedWhenLater
  <2>3. QED
    BY <1>2, <1>4, <1>8, <2>2 DEF GlobalAccounted
<1>14. failures' # << >> => failures'[Len(failures')].ip = latest_fail'.ip
  <2>1. SUFFICES ASSUME failures' # << >> PROVE failures'[Len(failures')].ip = latest_fail'.ip
    OBVIOUS
  <2>2. Len(failures) \in 1 .. Len(failures) /\ failures # << >>
    BY <1>2, <1>4, <2>1
  <2>3. QED
    BY <1>1, <1>3, <1>4, <1>7, <2>2
<1>15. QED
  BY <1>1, <1>7, <1>8, <1>10, <1>12, <1>13, <1>14 DEF LimiterInv

\* After a start nothing has been counted, which is all there is to account for.
LEMMA LimiterStartInv == LimiterInit => LimiterInv
<1> SUFFICES ASSUME LimiterInit PROVE LimiterInv
  OBVIOUS
<1> USE DEF LimiterInit
<1>1. Len(failures) = 0 /\ DOMAIN failures = {} /\ failures \in Seq(Failure)
  OBVIOUS
<1>2. IpForgotten \in Nat /\ GlobalForgotten \in Nat
  BY LimiterBounds DEF IpForgotten, GlobalForgotten
<1>3. latest_fail.count = 0 /\ latest_fail.age = 0 /\ latest_fail.ip = NoIp
  OBVIOUS
<1>4. latest_fail \in [ip : Ip \cup {NoIp}, age : 0 .. (IpLimit + 1),
                      count : 0 .. (FailThreshold + 1), alerted : BOOLEAN]
  BY LimiterBounds
<1>5. LimiterTypeOK
  BY <1>1, <1>2, <1>4, LimiterBounds DEF LimiterTypeOK, Failure
<1>6. IpAccounted
  BY <1>1, <1>3, LimiterBounds DEF IpAccounted, Accounted
<1>7. GlobalAccounted
  BY <1>1, LimiterBounds DEF GlobalAccounted, Accounted
<1>8. latest_fail.alerted <=> latest_fail.count >= FailThreshold
  BY LimiterBounds
<1>9. global_fail.alerted <=> global_fail.count >= FailGlobalThresh
  BY LimiterBounds
<1>10. QED
  BY <1>1, <1>3, <1>5, <1>6, <1>7, <1>8, <1>9 DEF LimiterInv

\* Every step of the system is a failed login, the passing of time, a restart, or nothing to
\* the limiter.
LEMMA LimiterNextInv == LimiterInv /\ [Next]_vars => LimiterInv'
<1>1. SUFFICES ASSUME LimiterInv, [Next]_vars PROVE LimiterInv'
  OBVIOUS
<1>2. CASE UNCHANGED limiterVars
  <2>1. UNCHANGED <<latest_fail, global_fail, failures, ip_alert, global_alert>>
    BY <1>2 DEF limiterVars
  <2>2. QED
    BY <1>1, <2>1 DEF LimiterInv, LimiterTypeOK, IpAccounted, GlobalAccounted, OwnFailures
<1>3. CASE \E ip \in Ip : Audit401(ip)
  BY <1>1, <1>3, FailureInv
<1>4. CASE LimiterTime
  BY <1>1, <1>4, LaterInv
<1>5. CASE Restart
  <2>1. LimiterInit'
    BY <1>5 DEF Restart, LimiterInit
  <2>2. LimiterInit' => LimiterInv'
    BY LimiterStartInv, PTL
  <2>3. QED
    BY <2>1, <2>2
<1>6. QED
  BY <1>1, <1>2, <1>3, <1>4, <1>5 DEF Next, vars, FailedLogin, SendAlert, AuditLog,
     SlackUpdate, TimePasses

\* The invariant of the limiter is one of the system.
LEMMA LimiterIsInvariant == Spec => []LimiterInv
<1>1. Init => LimiterInv
  BY LimiterStartInv DEF Init
<1>2. QED
  BY <1>1, LimiterNextInv, PTL DEF Spec

\* What the latest n failures are.
LEMMA LatestFailures ==
  ASSUME LimiterTypeOK, NEW n \in Nat \ {0}, Len(failures) >= n
  PROVE  /\ DOMAIN Latest(n) = 1 .. n
         /\ \A i \in 1 .. n : Latest(n)[i] = failures[Len(failures) - n + i]
<1>1. failures \in Seq(Failure) /\ Len(failures) \in Nat
  BY DEF LimiterTypeOK, Failure
<1>2. \A j \in (Len(failures) - n + 1) .. Len(failures) : failures[j] \in Failure
  BY <1>1
<1>3. QED
  BY <1>1, <1>2 DEF Latest

\* The latest u failures are own, and recent.
RecentAndOwn(seq, own, u, w) ==
  \A j \in (Len(seq) - u + 1) .. Len(seq) : j \in own /\ seq[j].age \in Nat /\ seq[j].age <= w

\* An entry that is accounted for tells when the latest alert was, if twice the threshold
\* less one of the latest failures were its own and close together: either it has alerted
\* since its window began, or as many as the threshold came before that.
LEMMA AccountedHasAlerted ==
  ASSUME NEW n \in Nat \ {0}, NEW w \in Nat, NEW lim \in Nat, NEW seq, NEW own,
         NEW count \in Nat, NEW age \in Nat, NEW alert \in Nat, Len(seq) \in Nat,
         NEW u \in Nat, u = n + n - 1, Len(seq) >= u
  PROVE  Accounted(count, age, alert, seq, own, n, w, lim) /\ RecentAndOwn(seq, own, u, w)
         => alert <= lim + w
<1> DEFINE first == Len(seq) - count + 1
<1>1. SUFFICES ASSUME Accounted(count, age, alert, seq, own, n, w, lim),
                      RecentAndOwn(seq, own, u, w)
               PROVE  alert <= lim + w
  OBVIOUS
<1>2. CASE count >= n
  <2>1. seq[Len(seq)].age \in Nat /\ seq[Len(seq)].age <= w
    BY <1>1 DEF RecentAndOwn
  <2>2. alert <= lim + seq[Len(seq)].age
    BY <1>1, <1>2, <2>1 DEF Accounted
  <2>3. QED
    BY <2>1, <2>2
<1>3. CASE count < n
  <2>1. count # 0 => first - n >= Len(seq) - u + 1
    BY <1>3
  <2>2. count # 0
    BY <1>1 DEF Accounted
  <2>3. first > n /\ first - 1 \in (Len(seq) - u + 1) .. Len(seq)
    BY <1>3, <2>1, <2>2
  <2>4. ASSUME NEW j \in (first - n) .. (first - 1)
        PROVE  j \in own /\ seq[j].age <= w
    <3>1. j \in (Len(seq) - u + 1) .. Len(seq)
      BY <2>1, <2>2, <2>3
    <3>2. QED
      BY <1>1, <3>1 DEF RecentAndOwn
  <2>5. alert <= lim + seq[first - 1].age
    BY <1>1, <1>3, <2>3, <2>4 DEF Accounted
  <2>6. seq[first - 1].age \in Nat /\ seq[first - 1].age <= w
    BY <1>1, <2>3 DEF RecentAndOwn
  <2>7. QED
    BY <2>5, <2>6
<1>4. QED
  BY <1>2, <1>3

\* An address that fails 2 * FailThreshold - 1 times within the window (five times within
\* 10 s), nobody else in between, has been reported, however the failures fall on the
\* windows that are counted (audit_401); of FailThreshold failures this is not true.
THEOREM IpAlertsAreComplete == Spec => []RepeatedFailuresAreReported
<1>1. ASSUME LimiterInv PROVE RepeatedFailuresAreReported
  <2> DEFINE u == Unmissable(FailThreshold)
             last == Latest(u)
  <2>1. SUFFICES ASSUME Len(failures) >= u,
                        \A i \in DOMAIN last : last[i].ip = last[1].ip /\ last[i].age <= FailWindow
                 PROVE  ip_alert <= IpLimit + FailWindow
    BY DEF RepeatedFailuresAreReported, ReportedAfter
  <2>2. u \in Nat \ {0} /\ u = FailThreshold + FailThreshold - 1
    BY LimiterBounds DEF Unmissable
  <2> HIDE DEF u
  <2>3. /\ LimiterTypeOK /\ IpAccounted /\ failures \in Seq(Failure) /\ Len(failures) \in Nat
        /\ DOMAIN failures = 1 .. Len(failures)
    BY <1>1 DEF LimiterInv, LimiterTypeOK, Failure
  <2>4. DOMAIN last = 1 .. u /\ \A i \in 1 .. u : last[i] = failures[Len(failures) - u + i]
    BY <2>1, <2>2, <2>3, LatestFailures
  <2> HIDE DEF last
  <2>5. last[1].ip = latest_fail.ip
    <3>1. u \in 1 .. u /\ Len(failures) - u + u = Len(failures) /\ failures # << >>
      BY <2>1, <2>2, <2>3
    <3>2. last[u] = failures[Len(failures)]
      BY <2>4, <3>1
    <3>3. failures[Len(failures)].ip = latest_fail.ip
      BY <1>1, <3>1 DEF LimiterInv
    <3>4. QED
      BY <2>1, <2>4, <3>1, <3>2, <3>3
  <2>6. ASSUME NEW j \in (Len(failures) - u + 1) .. Len(failures)
        PROVE  j \in OwnFailures /\ failures[j].age \in Nat /\ failures[j].age <= FailWindow
    <3>1. /\ j - Len(failures) + u \in 1 .. u /\ j \in 1 .. Len(failures)
          /\ Len(failures) - u + (j - Len(failures) + u) = j
      BY <2>1, <2>2, <2>3
    <3>2. last[j - Len(failures) + u] = failures[j]
      BY <2>4, <3>1
    <3>3. failures[j].ip = latest_fail.ip /\ failures[j].age <= FailWindow
      BY <2>1, <2>4, <2>5, <3>1, <3>2
    <3>4. failures[j] \in Failure
      BY <2>3, <3>1
    <3>5. failures[j].age \in Nat
      BY <3>4, LimiterBounds DEF Failure
    <3>6. QED
      BY <2>3, <3>1, <3>3, <3>5 DEF OwnFailures
  <2>7. RecentAndOwn(failures, OwnFailures, u, FailWindow)
    BY <2>6 DEF RecentAndOwn
  <2>8. latest_fail.count \in Nat /\ latest_fail.age \in Nat /\ ip_alert \in Nat
    BY <2>3, EntryTypes, LimiterBounds
  <2>9. QED
    BY <2>1, <2>2, <2>3, <2>7, <2>8, AccountedHasAlerted, LimiterBounds DEF IpAccounted
<1>2. QED
  BY <1>1, LimiterIsInvariant, PTL

\* Of 2 * FailGlobalThresh - 1 failures within the global window (nineteen within a
\* minute) one has led to a global alert, however many addresses take turns (audit_401:
\* rotating addresses do not silence it); of FailGlobalThresh failures this is not true.
THEOREM GlobalAlertsAreComplete == Spec => []RotationIsReported
<1>1. ASSUME LimiterInv PROVE RotationIsReported
  <2> DEFINE u == Unmissable(FailGlobalThresh)
             last == Latest(u)
  <2>1. SUFFICES ASSUME Len(failures) >= u,
                        \A i \in DOMAIN last : last[i].age <= FailGlobalWindow
                 PROVE  global_alert <= FailGlobalWindow + FailGlobalWindow
    BY LimiterBounds DEF RotationIsReported
  <2>2. u \in Nat \ {0} /\ u = FailGlobalThresh + FailGlobalThresh - 1
    BY LimiterBounds DEF Unmissable
  <2> HIDE DEF u
  <2>3. /\ LimiterTypeOK /\ GlobalAccounted /\ failures \in Seq(Failure)
        /\ Len(failures) \in Nat /\ DOMAIN failures = 1 .. Len(failures)
    BY <1>1 DEF LimiterInv, LimiterTypeOK, Failure
  <2>4. DOMAIN last = 1 .. u /\ \A i \in 1 .. u : last[i] = failures[Len(failures) - u + i]
    BY <2>1, <2>2, <2>3, LatestFailures
  <2> HIDE DEF last
  <2>5. ASSUME NEW j \in (Len(failures) - u + 1) .. Len(failures)
        PROVE  /\ j \in DOMAIN failures /\ failures[j].age \in Nat
               /\ failures[j].age <= FailGlobalWindow
    <3>1. /\ j - Len(failures) + u \in 1 .. u /\ j \in 1 .. Len(failures)
          /\ Len(failures) - u + (j - Len(failures) + u) = j
      BY <2>1, <2>2, <2>3
    <3>2. last[j - Len(failures) + u] = failures[j]
      BY <2>4, <3>1
    <3>3. failures[j].age <= FailGlobalWindow
      BY <2>1, <2>4, <3>1, <3>2
    <3>4. failures[j] \in Failure
      BY <2>3, <3>1
    <3>5. failures[j].age \in Nat
      BY <3>4, LimiterBounds DEF Failure
    <3>6. QED
      BY <2>3, <3>1, <3>3, <3>5
  <2>6. RecentAndOwn(failures, DOMAIN failures, u, FailGlobalWindow)
    BY <2>5 DEF RecentAndOwn
  <2>7. global_fail.count \in Nat /\ global_fail.age \in Nat /\ global_alert \in Nat
    BY <2>3, EntryTypes, LimiterBounds
  <2>8. QED
    BY <2>1, <2>2, <2>3, <2>6, <2>7, AccountedHasAlerted, LimiterBounds DEF GlobalAccounted
<1>2. QED
  BY <1>1, LimiterIsInvariant, PTL

\* Every variable of the web server's alerts keeps its type.
THEOREM TypeCorrect == Spec => []TypeOK
<1>1. Init => to_send \in 0 .. 2
  BY DEF Init
<1>2. to_send \in 0 .. 2 /\ [Next]_vars => (to_send \in 0 .. 2)'
  BY DEF Next, vars, FailedLogin, SendAlert, AuditLog, SlackUpdate, Restart, TimePasses
<1>3. NotifierInv /\ LimiterInv /\ to_send \in 0 .. 2 => TypeOK
  BY DEF NotifierInv, LimiterInv, TypeOK
<1>4. QED
  BY <1>1, <1>2, <1>3, NotifierIsInvariant, LimiterIsInvariant, PTL DEF Spec
===============================================================================
