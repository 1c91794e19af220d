------------------------------- MODULE Firmware -------------------------------
(***************************************************************************)
(* Uploading firmware (main/http/server.cpp, ota_upload_handler): httpd    *)
(* writes the image over the slot that is not running, has it verified,    *)
(* makes it the one to boot and asks for a restart.  A reset may come at   *)
(* any moment; the bootloader takes the chosen slot if its image is whole, *)
(* and the other one if not.  Flash, esp_ota and bootloader are external.  *)
(***************************************************************************)
EXTENDS Integers

VARIABLES
  httpd_pc,              \* what httpd, a single thread, is doing
  upload_in_progress,    \* the atomic of the same name
  session,               \* ota_session_open
  image,                 \* what is in the two slots of the flash
  running,               \* the slot the chip has started from
  boot_slot,             \* the slot chosen for the next start
  promised               \* the slot last answered with OK, unless overwritten since

None == -1
Slot == {0, 1}

uploadVars   == <<httpd_pc, upload_in_progress, session>>
flashVars    == <<image, running, boot_slot, promised>>
firmwareVars == <<uploadVars, flashVars>>

FirmwareTypeOK ==
  /\ {upload_in_progress, session} \subseteq BOOLEAN
  /\ image \in [Slot -> {"whole", "partial"}]
  /\ running \in Slot /\ boot_slot \in Slot /\ promised \in Slot \cup {None}

FirmwareInit ==
  /\ httpd_pc = "idle" /\ upload_in_progress = FALSE /\ session = FALSE
  /\ image = [s \in Slot |-> IF s = 0 THEN "whole" ELSE "partial"]
  /\ running = 0 /\ boot_slot = 0 /\ promised = None

\* Mutant: the slot that is not going to be booted.
UpdateSlot_NotBooted == 1 - boot_slot

\* esp_ota_get_next_update_partition(nullptr): the slot that is not running.
UpdateSlot == 1 - running

\* The atomic is claimed first; nobody else can hold it, httpd being one thread.
Claim ==
  /\ httpd_pc = "idle" /\ ~upload_in_progress
  /\ upload_in_progress' = TRUE /\ httpd_pc' = "begin"
  /\ UNCHANGED <<session, flashVars>>

\* A request with the wrong type or length, or esp_ota_begin fails, perhaps after
\* having erased something.
BeginFails ==
  /\ httpd_pc = "begin"
  /\ httpd_pc' = "cleanup"
  /\ \/ UNCHANGED <<image, promised>>
     \/ image' = [image EXCEPT ![UpdateSlot] = "partial"] /\ promised' = None
  /\ UNCHANGED <<upload_in_progress, session, running, boot_slot>>

\* esp_ota_begin erases the slot.
Begin ==
  /\ httpd_pc = "begin"
  /\ session' = TRUE /\ httpd_pc' = "receive"
  /\ image' = [image EXCEPT ![UpdateSlot] = "partial"] /\ promised' = None
  /\ UNCHANGED <<upload_in_progress, running, boot_slot>>

\* Blocks are received and written until the last; timeouts are retried for ever.
Receive ==
  /\ httpd_pc = "receive"
  /\ httpd_pc' \in {"end", "cleanup"}
  /\ UNCHANGED <<upload_in_progress, session, flashVars>>

\* Mutant: an image that fails the verification is taken all the same.
End_Unverified ==
  /\ httpd_pc = "end"
  /\ session' = FALSE /\ httpd_pc' = "setBoot"
  /\ \/ image' = [image EXCEPT ![UpdateSlot] = "whole"]
     \/ UNCHANGED image
  /\ UNCHANGED <<upload_in_progress, running, boot_slot, promised>>

\* esp_ota_end verifies the image.
End ==
  /\ httpd_pc = "end"
  /\ session' = FALSE
  /\ \/ image' = [image EXCEPT ![UpdateSlot] = "whole"] /\ httpd_pc' = "setBoot"
     \/ UNCHANGED image /\ httpd_pc' = "cleanup"
  /\ UNCHANGED <<upload_in_progress, running, boot_slot, promised>>

SetBootPartition ==
  /\ httpd_pc = "setBoot"
  /\ \/ boot_slot' = UpdateSlot /\ promised' = UpdateSlot /\ httpd_pc' = "release"
     \/ UNCHANGED <<boot_slot, promised>> /\ httpd_pc' = "cleanup"
  /\ UNCHANGED <<upload_in_progress, session, image, running>>

Release ==
  /\ httpd_pc = "release"
  /\ upload_in_progress' = FALSE /\ httpd_pc' = "schedule"
  /\ UNCHANGED <<session, flashVars>>

\* The label cleanup: esp_ota_abort if needed, and the atomic.
Cleanup ==
  /\ httpd_pc = "cleanup"
  /\ session' = FALSE /\ upload_in_progress' = FALSE /\ httpd_pc' = "idle"
  /\ UNCHANGED flashVars

UploadStep ==
  BeginFails \/ Begin \/ Receive \/ End \/ SetBootPartition \/ Release \/ Cleanup

\* The bootloader's choice; what is in RAM is lost.
Bootloader ==
  /\ httpd_pc' = "idle" /\ upload_in_progress' = FALSE /\ session' = FALSE
  /\ running' = IF image[boot_slot] = "whole" THEN boot_slot ELSE 1 - boot_slot
  /\ promised' = None
  /\ UNCHANGED <<image, boot_slot>>

-------------------------------------------------------------------------------
\* Whatever is uploaded, and whenever the chip is reset, there is an image to start.
SomethingBoots == image[running] = "whole"

\* Firmware that was answered with OK is what the next reset starts, whatever kind of
\* reset it is and whatever httpd is doing, unless a later upload has begun to
\* overwrite it in the half second before the restart (schedule_restart).
AcceptedFirmwareRuns ==
  [][Bootloader /\ promised # None => running' = promised]_firmwareVars
===============================================================================
