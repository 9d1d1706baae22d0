--------------------------- MODULE CameraProvider ---------------------------
(***************************************************************************)
(* CameraProvider lists the cameras of a legacy camera module and reports  *)
(* the external ones as they come and go.                                  *)
(*                                                                         *)
(* The module reports status changes on a thread of its own from the       *)
(* moment initialize() has set the callbacks, so while the cameras are     *)
(* still being enumerated.  mCbLock covers a report and setCallback, but   *)
(* not initialize() and not the two look-ups.                              *)
(***************************************************************************)
EXTENDS Integers, Sequences

CONSTANTS
  NumberOfCameras,  \* built into the device
  RemapIds,         \* the remap property: a sequence of {id}, or {} for no number
  SkipFailed,       \* the property that skips cameras without info
  ModuleVersion,    \* 20 is 2.0
  DeviceVersions,   \* versions a camera's info may give: 32 is 3.2
  External,         \* ids of cameras that may be plugged in
  MaxReports        \* status changes reported

getLegacyCameraIdMap ==
  [n \in 1 .. NumberOfCameras |->
     IF n <= Len(RemapIds) /\ RemapIds[n] # {} THEN CHOOSE id \in RemapIds[n] : TRUE
     ELSE n - 1]

checkCameraVersion(version) ==
  \/ ModuleVersion < 20
  \/ version \in {10, 32, 33, 34, 35}
  \/ version = 36 /\ ModuleVersion >= 25

Ids == External \cup {getLegacyCameraIdMap[n] : n \in 1 .. NumberOfCameras}
CameraStatuses == {"NOT_PRESENT", "PRESENT", "ENUMERATING"}

VARIABLES
  next,                 \* initialize(): the camera it is at, past the end when done
  mInitFailed,
  mLegacyCameras,       \* ids enumerated by initialize()
  mCameraStatusMap,     \* id |-> status
  mCameraDeviceNames,   \* ids that have a device name
  mCallbacks,           \* the framework registered its callback
  reported,             \* id |-> the module's last report
  view,                 \* id |-> the framework's last report since registering
  devices,              \* ids whose CameraDevice the framework has got
  reports,              \* for the bound
  overwritten,          \* ids whose report initialize() wrote over
  unnoticed,            \* ids that went away while no callback was registered
  providerDown          \* the process died

providerVars == <<next, mInitFailed, mLegacyCameras, mCameraStatusMap,
                  mCameraDeviceNames, mCallbacks, reported, view, devices,
                  reports, overwritten, unnoticed, providerDown>>

ProviderInit ==
  /\ next = 1 /\ mInitFailed = FALSE
  /\ mLegacyCameras = {} /\ mCameraDeviceNames = {}
  /\ mCameraStatusMap = [c \in Ids |-> "NOT_PRESENT"]
  /\ mCallbacks = FALSE
  /\ reported = [c \in Ids |-> IF c \in External THEN "NOT_PRESENT" ELSE "PRESENT"]
  /\ view = [c \in Ids |-> "NOT_PRESENT"]
  /\ devices = {}
  /\ reports = 0 /\ overwritten = {} /\ unnoticed = {} /\ providerDown = FALSE

Initialized == next > NumberOfCameras \/ mInitFailed

----------------------------------------------------------------------------
\* One camera of initialize()'s loop.  Its info can be read and it is added,
\* or is of a version that fails the provider; or the info cannot be read,
\* and the camera is skipped or fails the provider.
addCamera(c) ==
  /\ \E version \in DeviceVersions : checkCameraVersion(version)
  /\ mLegacyCameras' = mLegacyCameras \cup {c}
  /\ mCameraStatusMap' = [mCameraStatusMap EXCEPT ![c] = "PRESENT"]
  /\ mCameraDeviceNames' = mCameraDeviceNames \cup {c}
  /\ overwritten' = IF reported[c] = "PRESENT" THEN overwritten ELSE overwritten \cup {c}
  /\ next' = next + 1
  /\ UNCHANGED mInitFailed

refuseVersion(c) ==
  /\ \E version \in DeviceVersions : ~ checkCameraVersion(version)
  /\ mLegacyCameras' = mLegacyCameras \cup {c}
  /\ mInitFailed' = TRUE
  /\ UNCHANGED <<next, mCameraStatusMap, mCameraDeviceNames, overwritten>>

noInfo ==
  /\ next' = IF SkipFailed THEN next + 1 ELSE next
  /\ mInitFailed' = ~ SkipFailed
  /\ UNCHANGED <<mLegacyCameras, mCameraStatusMap, mCameraDeviceNames, overwritten>>

initialize ==
  /\ ~ Initialized
  /\ LET c == getLegacyCameraIdMap[next]
     IN addCamera(c) \/ refuseVersion(c) \/ noInfo
  /\ UNCHANGED <<mCallbacks, reported, view, devices, reports, unnoticed, providerDown>>

\* addDeviceNames and removeDeviceNames ask the module, which a failed
\* initialize() has let go of.
ModuleGone == mInitFailed

\* Mutation of StatusAfter: without a callback the report is dropped.
StatusWithCallback(c, status) ==
  IF mCallbacks THEN [mCameraStatusMap EXCEPT ![c] = status] ELSE mCameraStatusMap

StatusAfter(c, status) == [mCameraStatusMap EXCEPT ![c] = status]

\* addDeviceNames and removeDeviceNames.
NamesAfter(c, status) ==
  IF status = "NOT_PRESENT" THEN mCameraDeviceNames \ {c} ELSE mCameraDeviceNames \cup {c}

\* sCameraDeviceStatusChange, under mCbLock.
CameraDeviceStatusChange(c, status) ==
  LET found == c \in mCameraDeviceNames
      changes == mCallbacks /\ found = (status = "NOT_PRESENT")
  IN /\ reports < MaxReports /\ status # reported[c]
     /\ reports' = reports + 1
     /\ reported' = [reported EXCEPT ![c] = status]
     /\ mCameraStatusMap' = StatusAfter(c, status)
     /\ overwritten' = IF Initialized THEN overwritten \ {c} ELSE overwritten
     /\ providerDown' = (changes /\ ModuleGone)
     /\ mCameraDeviceNames' = IF changes THEN NamesAfter(c, status) ELSE mCameraDeviceNames
     /\ view' = IF mCallbacks /\ (found \/ changes) THEN [view EXCEPT ![c] = status] ELSE view
     /\ unnoticed' = IF status # "NOT_PRESENT" THEN unnoticed \ {c}
                     ELSE IF mCallbacks THEN unnoticed ELSE unnoticed \cup {c}
     /\ UNCHANGED <<next, mInitFailed, mLegacyCameras, mCallbacks, devices>>

ExternalThere == {c \in Ids \ mLegacyCameras : mCameraStatusMap[c] # "NOT_PRESENT"}

\* setCallback, under mCbLock: the external cameras that are there are added
\* and reported.
setCallback(callback) ==
  LET there == ExternalThere
  IN /\ Initialized /\ (callback \/ mCallbacks)
     /\ mCallbacks' = callback
     /\ view' = [c \in Ids |-> IF callback /\ c \in there THEN mCameraStatusMap[c]
                               ELSE "NOT_PRESENT"]
     /\ mCameraDeviceNames' = IF callback THEN mCameraDeviceNames \cup there
                              ELSE mCameraDeviceNames
     /\ providerDown' = (callback /\ there # {} /\ ModuleGone)
     /\ UNCHANGED <<next, mInitFailed, mLegacyCameras, mCameraStatusMap, reported, devices,
                    reports, overwritten, unnoticed>>

\* getCameraIdList: the built-in cameras that are there.
getCameraIdList == {c \in mCameraDeviceNames \cap mLegacyCameras : mCameraStatusMap[c] = "PRESENT"}

\* getCameraDeviceInterface: a new CameraDevice, whose constructor asks the
\* module.  The framework keeps one per camera.
getCameraDeviceInterface(c) ==
  /\ Initialized /\ c \in mCameraDeviceNames \ devices
  /\ c \in getCameraIdList \/ view[c] = "PRESENT"
  /\ providerDown' = ModuleGone
  /\ devices' = devices \cup {c}
  /\ UNCHANGED <<next, mInitFailed, mLegacyCameras, mCameraStatusMap, mCameraDeviceNames,
                 mCallbacks, reported, view, reports, overwritten, unnoticed>>

----------------------------------------------------------------------------
ProviderNext ==
  /\ ~ providerDown
  /\ \/ initialize
     \/ \E c \in Ids, status \in CameraStatuses : CameraDeviceStatusChange(c, status)
     \/ \E callback \in BOOLEAN : setCallback(callback)
     \/ \E c \in Ids : getCameraDeviceInterface(c)

ProviderSpec == ProviderInit /\ [][ProviderNext]_providerVars

----------------------------------------------------------------------------
\* The status of every camera the provider lists or could report is the
\* module's last report of it, unless initialize() wrote "present" over a
\* report that came while it was enumerating.
StatusAsReported ==
  Initialized =>
    \A c \in External \cup mCameraDeviceNames :
      mCameraStatusMap[c] = reported[c] \/ c \in overwritten

\* While a callback is registered the framework knows the status of every
\* external camera, also of those plugged in before it registered or again
\* after it registered anew.
ExternalCamerasReported ==
  mCallbacks => \A c \in External : view[c] = mCameraStatusMap[c]

\* Only cameras that are there can be turned into a CameraDevice by name,
\* except one that went away while no callback was registered, and built-in
\* ones whose report initialize() wrote over.
NamesArePresent ==
  Initialized =>
    \A c \in mCameraDeviceNames :
      reported[c] # "NOT_PRESENT" \/ c \in unnoticed \cup overwritten

\* The provider's picture of the cameras, the framework's and the module's reports
\* agree, through hot-plugging, registration and initialize().
CamerasKnown == StatusAsReported /\ ExternalCamerasReported /\ NamesArePresent
=============================================================================
