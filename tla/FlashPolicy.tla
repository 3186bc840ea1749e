----------------------------- MODULE FlashPolicy ----------------------------
(***************************************************************************)
(* Which release of a device is shown, and which one is flashed: the join  *)
(* of get-devices and get-updates in FwupdService.inventory, the buttons   *)
(* of the detail page, and the validation of POST /flash.                  *)
(*                                                                         *)
(* It follows one operator and one device.  The page and the validation    *)
(* each make two calls, and what fwupd reports may change before any call: *)
(* another request refreshes the metadata, or the device changes.  The     *)
(* confirmation text is in ConfirmName, the lock in FwupdService.          *)
(***************************************************************************)
EXTENDS Integers, Lists

CONSTANTS
    Releases,       \* releases fwupd may report
    Lists,          \* the lists of them it may report
    None,           \* Python's None
    MaxChanges      \* bound: how often what fwupd reports changes

(* What makes a download verifiable: Release.flags, download_url, sha256.  *)
Evidence == {"trusted-metadata", "https_url", "sha256"}

ASSUME PolicyAssumption ==
    /\ \A r \in Releases :
        /\ DOMAIN r = {"version", "component", "file", "upgrade", "has"}
        /\ r.upgrade \in BOOLEAN
        /\ r.has \subseteq Evidence
    /\ \A r, s \in Releases : r.version = s.version => r.upgrade = s.upgrade
    /\ Lists \subseteq Seq(Releases)
    /\ None \notin Releases
    /\ MaxChanges \in Nat

(* One plugin for each branch of policy.evaluate.                          *)
Plugins         == {"uefi_capsule", "nvme", "logitech"}
BLOCKED_PLUGINS == {"uefi_capsule"}

Devices == [present : BOOLEAN, plugin : Plugins, updatable : BOOLEAN, releases : Lists]
Forms   == [version : {r.version : r \in Releases},
            component : {r.component : r \in Releases} \cup {None},
            typed : BOOLEAN]

VARIABLES
    enabled,    \* Config.enable_flashing
    device,     \* what get-devices reports of the device
    updates,    \* what get-updates reports of it; None when it fails
    changes,    \* how often that has changed
    stage,      \* where the operator's request is
    listed,     \* the device as the current request read it
    confirmed,  \* the updates as the current request read them
    page,       \* the device's releases on the detail page
    button,     \* the release whose button was pressed
    form,       \* the posted form
    release     \* the release the validation picked

worldVars   == <<enabled, device, updates, changes>>
requestVars == <<stage, listed, confirmed, page, button, form, release>>
vars == <<worldVars, requestVars>>

Init ==
    /\ enabled \in BOOLEAN
    /\ device \in Devices
    /\ updates \in Lists \cup {None}
    /\ changes = 0
    /\ stage = "start"
    /\ listed = None
    /\ confirmed = None
    /\ page = None
    /\ button = None
    /\ form = None
    /\ release = None

-----------------------------------------------------------------------------
(***************************************************************************)
(* Helpers                                                                 *)
(***************************************************************************)

_release_key(r) == <<r.version, r.component>>

Keys(list) == {_release_key(r) : r \in ToSet(list)}

_dedupe_releases(list) ==
    LET Keep(kept, r) == IF _release_key(r) \in Keys(kept) THEN kept ELSE Append(kept, r)
    IN  FoldLeft(Keep, << >>, list)

(* Mutant: every upgrade get-devices lists counts as available.            *)
View_Merged(releases, confirmedList) ==
    LET upgrades == Kept(releases, {r \in Releases : r.upgrade})
    IN  [available |-> _dedupe_releases(confirmedList \o upgrades), unconfirmed |-> << >>]

(* DeviceView: the releases that get-updates confirmed, and the upgrades   *)
(* that only get-devices lists.                                            *)
View(releases, confirmedList) ==
    LET available == _dedupe_releases(confirmedList)
        others == {r \in Releases : r.upgrade /\ _release_key(r) \notin Keys(available)}
    IN  [available |-> available,
         unconfirmed |-> Kept(_dedupe_releases(releases), others)]

(* policy.evaluate(...).flashable                                          *)
Flashable(d) == enabled /\ d.plugin \notin BLOCKED_PLUGINS /\ d.updatable

(* The releases of the device that the form may mean, by their place.      *)
Meant(d, f) ==
    {i \in DOMAIN d.releases : /\ d.releases[i].version = f.version
                               /\ f.component \in {None, d.releases[i].component}}

First(places) == {i \in places : \A j \in places : i <= j}

-----------------------------------------------------------------------------
(***************************************************************************)
(* What fwupd reports changes.                                             *)
(***************************************************************************)

Changes ==
    /\ changes < MaxChanges
    /\ changes' = changes + 1
    /\ \/ /\ \E list \in Lists : device' = [device EXCEPT !.releases = list]
          /\ UNCHANGED updates
       \/ /\ device' \in [present : BOOLEAN, plugin : {device.plugin}, updatable : BOOLEAN,
                          releases : {device.releases}]
          /\ UNCHANGED updates
       \/ /\ updates' \in Lists \cup {None}
          /\ UNCHANGED device
    /\ UNCHANGED <<enabled, requestVars>>

-----------------------------------------------------------------------------
(***************************************************************************)
(* The page                                                                *)
(***************************************************************************)

(* inventory(): get-devices.  A device that is gone is a 404.              *)
ListDevices ==
    /\ stage = "start"
    /\ device.present
    /\ listed' = device
    /\ stage' = "listing"
    /\ UNCHANGED <<worldVars, confirmed, page, button, form, release>>

(* inventory(): get-updates, which counts as empty when it fails.          *)
ListUpdates ==
    /\ stage = "listing"
    /\ confirmed' = IF updates = None THEN << >> ELSE updates
    /\ page' = View(listed.releases, confirmed')
    /\ stage' = "page"
    /\ UNCHANGED <<worldVars, listed, button, form, release>>

(* A button of _device_detail.html, then the form of _flash_confirm.html,  *)
(* which leaves out a missing component.                                   *)
PressButton ==
    /\ stage = "page"
    /\ enabled
    /\ button' \in ToSet(page.available)
    /\ \E typed \in BOOLEAN :
        form' = [version |-> button'.version, component |-> button'.component, typed |-> typed]
    /\ stage' = "posted"
    /\ UNCHANGED <<worldVars, listed, confirmed, page, release>>

(* A POST that no page offered.  The route exists only when flashing is    *)
(* enabled, but the service does not rely on that.                         *)
PostAnything ==
    /\ stage = "start"
    /\ form' \in Forms
    /\ stage' = "posted"
    /\ UNCHANGED <<worldVars, listed, confirmed, page, button, release>>

-----------------------------------------------------------------------------
(***************************************************************************)
(* The validation, _validate_and_begin                                     *)
(***************************************************************************)

(* The device is there and may be flashed, and its name was typed.         *)
Permitted == device.present /\ Flashable(device) /\ form.typed

(* Mutant: any of several components will do.                              *)
OneComponent_Any(places) == TRUE

OneComponent(places) ==
    \A i, j \in places : device.releases[i].component = device.releases[j].component

(* get-devices: the form means releases of one component, the first of     *)
(* which is it.                                                            *)
CheckDevices ==
    /\ stage = "posted"
    /\ listed' = device
    /\ LET meant == Meant(device, form)
       IN  \/ /\ Permitted /\ OneComponent(meant)
              /\ \E i \in First(meant) : release' = device.releases[i]
              /\ stage' = "checking"
           \/ /\ Permitted /\ ~OneComponent(meant)
              /\ stage' = "ambiguous"
              /\ UNCHANGED release
           \/ /\ ~Permitted \/ meant = {}
              /\ stage' = "refused"
              /\ UNCHANGED release
    /\ UNCHANGED <<worldVars, confirmed, page, button, form>>

(* Mutant: when get-updates fails, the release counts as confirmed.        *)
CheckUpdates_FailOpen ==
    /\ stage = "checking"
    /\ confirmed' = updates
    /\ stage' = IF /\ updates = None \/ _release_key(release) \in Keys(updates)
                   /\ release.has = Evidence
                THEN "flashed" ELSE "refused"
    /\ UNCHANGED <<worldVars, listed, page, button, form, release>>

(* get-updates: it confirms the release, which can be fetched and verified. *)
CheckUpdates ==
    /\ stage = "checking"
    /\ confirmed' = updates
    /\ stage' = IF /\ updates # None
                   /\ _release_key(release) \in Keys(updates)
                   /\ release.has = Evidence
                THEN "flashed" ELSE "refused"
    /\ UNCHANGED <<worldVars, listed, page, button, form, release>>

Next ==
    \/ Changes
    \/ ListDevices
    \/ ListUpdates
    \/ PressButton
    \/ PostAnything
    \/ CheckDevices
    \/ CheckUpdates

Spec == Init /\ [][Next]_vars

-----------------------------------------------------------------------------
(***************************************************************************)
(* Properties                                                              *)
(***************************************************************************)

(* No upgrade is hidden and none is shown twice: each upgrade either call  *)
(* reports is shown under its version and component once, with a button    *)
(* exactly if get-updates reported it.                                     *)
ShownOnce ==
    stage = "page" =>
        LET shown == page.available \o page.unconfirmed IN
        /\ Keys(shown) = Keys(confirmed)
                \cup {_release_key(r) : r \in {u \in ToSet(listed.releases) : u.upgrade}}
        /\ Cardinality(Keys(shown)) = Len(shown)
        /\ Keys(page.available) = Keys(confirmed)

(* Whatever was posted and whatever changed between the calls, what is     *)
(* flashed was listed for a device that may be flashed, can be verified,   *)
(* and its version and component are among the updates read afterwards.    *)
FlashedIsAllowed ==
    stage = "flashed" =>
        /\ enabled /\ form.typed
        /\ listed.present /\ listed.updatable /\ listed.plugin \notin BLOCKED_PLUGINS
        /\ release \in ToSet(listed.releases)
        /\ release.has = Evidence
        /\ confirmed # None /\ _release_key(release) \in Keys(confirmed)

(* The operator gets what the button said, however old the page is: the    *)
(* version, and the component when the release has one; and a form that    *)
(* names no component never decides between two.                           *)
FlashedIsChosen ==
    stage = "flashed" =>
        /\ button # None => release.version = button.version
        /\ button # None /\ button.component # None => release.component = button.component
        /\ form.component = None =>
            \A r \in ToSet(listed.releases) :
                r.version = form.version => r.component = release.component

(* README.md: "Unconfirmed releases are refused as well."  Only version    *)
(* and component are compared, so a file that get-updates left out passes. *)
FlashedWasConfirmed == stage = "flashed" => release \in ToSet(confirmed)

(* service.py answers a version that means two files with "Choose one from *)
(* the device page", so pressing one of the page's buttons chooses.  The   *)
(* button of a release without a component sends the version alone.        *)
ButtonDecides == button # None => stage # "ambiguous"
=============================================================================
