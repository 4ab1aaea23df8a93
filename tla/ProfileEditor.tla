---------------------------- MODULE ProfileEditor ----------------------------
(***************************************************************************)
(* The profile editor: pages/ProfileEditPage.tsx with its debounced        *)
(* autosave, the drafts of components/profile/linksStore.ts, the staged    *)
(* photo of components/profile/AvatarCard.tsx and the rename of            *)
(* UsernameCard.tsx, against PUT /profiles/me and the media routes.        *)
(*                                                                         *)
(* A document is its text (links, section and header alike) and its photo. *)
(* Text 0 is the sample document shown when nothing is stored locally.     *)
(***************************************************************************)
EXTENDS Integers, FiniteSets

CONSTANTS MaxTexts,   \* texts the user can write: 1 .. MaxTexts
          MaxPhotos,  \* photos the user can pick
          MaxMounts,  \* times an editor opens
          MaxEdits, MaxFaults

ASSUME EditorConstants == {MaxTexts, MaxPhotos, MaxMounts, MaxEdits, MaxFaults} \subseteq Nat

VARIABLES
  gate,     \* session status of the page
  mount,    \* number of the editor that is open
  handle,   \* the name it edits under
  doc,      \* links, section and header on the page
  ready,    \* loaded
  saveState,
  lastKey,  \* content the page believes stored
  dirty,
  debounce, \* the 700 ms timer runs
  fetching, \* the document read for this editor
  puts,     \* saves under way
  staged,   \* photo uploaded by this editor and not known saved
  uploads,  \* uploads under way, with the header their callback closed over
  removals, \* media deletes under way
  savedDoc, blobs,  \* the server's document and photos
  drafts,   \* localStorage, per name
  typed,    \* history: what the user last entered in this editor
  crossed,  \* history: one of the races listed at Crossing happened
  photoCount, edits, faults

editorVars == <<gate, mount, handle, doc, ready, saveState, lastKey, dirty, debounce, fetching, puts,
                staged, uploads, removals, savedDoc, blobs, drafts, typed, crossed, photoCount, edits, faults>>

Handles == 1..MaxMounts
Docs == [text : 0..MaxTexts, photo : 0..MaxPhotos]
NoDoc == [text |-> -1, photo |-> 0]
SampleLinks == [text |-> 0, photo |-> 0]
Outcome == {"sent", "ok", "refused", "lost"}
Puts == [mount : 1..MaxMounts, name : Handles, doc : Docs, state : Outcome]
Uploads == [mount : 1..MaxMounts, name : Handles, text : 0..MaxTexts, staged : 0..MaxPhotos,
            photo : 0..MaxPhotos]
NoFetch == [state |-> "none", doc |-> NoDoc]
DocReads == [state : {"none", "sent", "ok", "lost"}, doc : Docs \cup {NoDoc}]

EditorTypeOK ==
  /\ gate \in {"loading", "guest", "editor"} /\ mount \in 0..MaxMounts /\ handle \in Handles
  /\ {doc, savedDoc} \subseteq Docs /\ {lastKey, typed} \subseteq Docs \cup {NoDoc}
  /\ saveState \in {"idle", "saving", "saved", "offline", "error"}
  /\ {ready, dirty, debounce, crossed} \subseteq BOOLEAN /\ fetching \in DocReads
  /\ puts \subseteq Puts /\ uploads \subseteq Uploads
  /\ staged \in 0..MaxPhotos /\ {removals, blobs} \subseteq SUBSET (1..MaxPhotos)
  /\ drafts \in [Handles -> Docs \cup {NoDoc}]

EditorInitOf(d) ==
  /\ gate = "loading" /\ mount = 0 /\ handle = 1 /\ doc = SampleLinks /\ ready = FALSE /\ saveState = "idle"
  /\ lastKey = NoDoc /\ dirty = FALSE /\ debounce = FALSE /\ fetching = NoFetch /\ puts = {}
  /\ staged = 0 /\ uploads = {} /\ removals = {} /\ savedDoc = d /\ blobs = {}
  /\ drafts = [h \in Handles |-> NoDoc] /\ typed = NoDoc /\ crossed = FALSE /\ photoCount = 0 /\ edits = 0 /\ faults = 0

EditorInit == EditorInitOf([text |-> 1, photo |-> 0])

Fault == faults < MaxFaults /\ faults' = faults + 1
RemoteVars == <<photoCount, savedDoc, blobs, removals, puts>>
PhotoVars == <<staged, uploads>>

(***************************************************************************)
(* The page and its gate                                                   *)
(***************************************************************************)
GateAnswers ==
  /\ gate = "loading" /\ mount < MaxMounts
  /\ gate' = "guest"
  /\ UNCHANGED <<mount, handle, doc, ready, saveState, lastKey, dirty, debounce, fetching, drafts, typed,
                 crossed, edits, faults, RemoteVars, PhotoVars>>

\* loadLinks, loadSection, loadHeader.
Local(h) == IF drafts[h] = NoDoc THEN SampleLinks ELSE drafts[h]

\* Crossing, outlived: a delete of the editor just left is still to be served.
Mounted(h) ==
  /\ mount < MaxMounts
  /\ gate' = "editor" /\ mount' = mount + 1 /\ handle' = h
  /\ doc' = Local(h) /\ ready' = FALSE /\ saveState' = "idle" /\ lastKey' = NoDoc /\ dirty' = FALSE
  /\ debounce' = FALSE /\ fetching' = [state |-> "sent", doc |-> NoDoc]
  /\ staged' = 0 /\ uploads' = {IF u.mount = mount THEN [u EXCEPT !.staged = staged] ELSE u : u \in uploads}
  /\ typed' = NoDoc /\ crossed' = (crossed \/ removals # {})
  /\ UNCHANGED <<drafts, RemoteVars>>

OpenEditor == gate \in {"loading", "guest"} /\ Mounted(handle) /\ UNCHANGED <<edits, faults>>

LeaveEditor ==
  /\ gate = "editor" /\ gate' = "loading"
  /\ debounce' = FALSE /\ fetching' = NoFetch
  /\ staged' = 0 /\ uploads' = {IF u.mount = mount THEN [u EXCEPT !.staged = staged] ELSE u : u \in uploads}
  /\ crossed' = (crossed \/ removals # {})
  /\ UNCHANGED <<mount, handle, doc, ready, saveState, lastKey, dirty, drafts, typed, edits, faults, RemoteVars>>

\* The new name is the key of the Editor: another editor mounts, under drafts of its own.
Rename == gate = "editor" /\ handle < MaxMounts /\ Mounted(handle + 1) /\ UNCHANGED <<edits, faults>>

(***************************************************************************)
(* Loading                                                                 *)
(***************************************************************************)
FetchServed ==
  /\ fetching.state = "sent"
  /\ \/ fetching' = [state |-> "ok", doc |-> savedDoc] /\ UNCHANGED faults
     \/ Fault /\ fetching' = [state |-> "lost", doc |-> NoDoc]
  /\ UNCHANGED <<gate, mount, handle, doc, ready, saveState, lastKey, dirty, debounce, drafts, typed, crossed,
                 edits, RemoteVars, PhotoVars>>

\* The autosave effect: it runs after every change of the content, of loaded and of the selection.
Autosave(d, key, isReady, shown) ==
  /\ debounce' = (isReady /\ d # key)
  /\ saveState' = IF isReady /\ d # key THEN "saving" ELSE shown

DocLoaded ==
  /\ gate = "editor" /\ fetching.state = "ok"
  /\ ready' = TRUE /\ fetching' = NoFetch
  /\ IF dirty
     THEN lastKey' = NoDoc /\ UNCHANGED <<doc, drafts>>
     ELSE lastKey' = fetching.doc /\ doc' = fetching.doc /\ drafts' = [drafts EXCEPT ![handle] = fetching.doc]
  /\ Autosave(doc', lastKey', TRUE, saveState)
  /\ UNCHANGED <<gate, mount, handle, dirty, typed, crossed, edits, faults, RemoteVars, PhotoVars>>

\* The drafts just typed are what the key of a failed load is made of.
DocFails ==
  /\ gate = "editor" /\ fetching.state = "lost"
  /\ ready' = TRUE /\ fetching' = NoFetch /\ lastKey' = Local(handle)
  /\ \E shown \in {"offline", saveState} : Autosave(doc, lastKey', TRUE, shown)
  /\ UNCHANGED <<gate, mount, handle, doc, dirty, drafts, typed, crossed, edits, faults, RemoteVars, PhotoVars>>

(***************************************************************************)
(* Editing and saving                                                      *)
(***************************************************************************)
Content(d) ==
  /\ dirty' = TRUE /\ doc' = d /\ drafts' = [drafts EXCEPT ![handle] = d]
  /\ Autosave(d, lastKey, ready, saveState)

\* The page offers its fields once a document or a draft is there.
Editable == gate = "editor" /\ (ready \/ drafts[handle] # NoDoc)

\* Crossing, undone: back to the content believed stored while another save is under way.
Edit(t) ==
  /\ Editable /\ edits < MaxEdits /\ t # doc.text
  /\ edits' = edits + 1
  /\ LET d == [doc EXCEPT !.text = t] IN
       /\ Content(d) /\ typed' = d
       /\ crossed' = (crossed \/ (d = lastKey /\ puts # {}))
  /\ UNCHANGED <<gate, mount, handle, ready, lastKey, fetching, faults, RemoteVars, PhotoVars>>

\* Another link selected: the effect runs again, and with it the save that failed.
Select ==
  /\ Editable /\ Autosave(doc, lastKey, ready, saveState)
  /\ UNCHANGED <<gate, mount, handle, doc, ready, lastKey, dirty, fetching, drafts, typed, crossed, edits, faults,
                 RemoteVars, PhotoVars>>

\* Crossing, overlap: nothing orders two saves under way.
SaveStarts ==
  /\ gate = "editor" /\ debounce /\ debounce' = FALSE
  /\ LET p == [mount |-> mount, name |-> handle, doc |-> doc, state |-> "sent"]
     IN p \notin puts /\ puts' = puts \cup {p}
  /\ crossed' = (crossed \/ puts # {})
  /\ UNCHANGED <<photoCount, gate, mount, handle, doc, ready, saveState, lastKey, dirty, fetching, savedDoc, blobs, removals,
                 drafts, typed, edits, faults, PhotoVars>>

\* set_avatar deletes the photo it replaces, and refuses one that is gone after the text was written.
PutMine(d) ==
  IF d.photo \in blobs \cup {0}
  THEN /\ savedDoc' = d
       /\ blobs' = IF savedDoc.photo = d.photo THEN blobs ELSE blobs \ {savedDoc.photo}
  ELSE /\ savedDoc' = [savedDoc EXCEPT !.text = d.text] /\ UNCHANGED blobs

SaveServed(p) ==
  /\ p.state = "sent"
  /\ \/ /\ PutMine(p.doc) /\ UNCHANGED faults
        /\ puts' = (puts \ {p}) \cup {[p EXCEPT !.state = IF p.doc.photo \in blobs \cup {0}
                                                         THEN "ok" ELSE "refused"]}
     \/ /\ Fault /\ puts' = (puts \ {p}) \cup {[p EXCEPT !.state = "lost"]}
        /\ PutMine(p.doc) \/ UNCHANGED <<savedDoc, blobs>>
  /\ UNCHANGED <<photoCount, gate, mount, handle, doc, ready, saveState, lastKey, dirty, debounce, fetching, removals, drafts,
                 typed, crossed, edits, PhotoVars>>

faulty_SaveAnswers(p) ==
  /\ p.state # "sent" /\ puts' = puts \ {p}
  /\ drafts' = [drafts EXCEPT ![p.name] = p.doc]
  /\ IF gate = "editor" /\ p.mount = mount
     THEN lastKey' = p.doc /\ saveState' = "saved"
     ELSE UNCHANGED <<lastKey, saveState>>
  /\ UNCHANGED <<photoCount, gate, mount, handle, doc, ready, dirty, debounce, fetching, savedDoc, blobs, removals, typed,
                 crossed, edits, faults, PhotoVars>>

\* Whatever the answer, the saved content is written over the draft.
SaveAnswers(p) ==
  /\ p.state # "sent" /\ puts' = puts \ {p}
  /\ drafts' = [drafts EXCEPT ![p.name] = p.doc]
  /\ IF gate = "editor" /\ p.mount = mount
     THEN /\ lastKey' = IF p.state = "ok" THEN p.doc ELSE lastKey
          /\ saveState' = CASE p.state = "ok" -> "saved" [] p.state = "lost" -> "offline" [] OTHER -> "error"
     ELSE UNCHANGED <<lastKey, saveState>>
  /\ UNCHANGED <<photoCount, gate, mount, handle, doc, ready, dirty, debounce, fetching, savedDoc, blobs, removals, typed,
                 crossed, edits, faults, PhotoVars>>

(***************************************************************************)
(* The photo                                                               *)
(***************************************************************************)
UploadStarts ==
  /\ Editable /\ \A u \in uploads : u.mount # mount
  /\ photoCount < MaxPhotos
  /\ uploads' = uploads \cup {[mount |-> mount, name |-> handle, text |-> doc.text, staged |-> 0, photo |-> 0]}
  /\ UNCHANGED <<gate, mount, handle, doc, ready, saveState, lastKey, dirty, debounce, fetching, staged, drafts,
                 typed, crossed, edits, faults, RemoteVars>>

UploadServed(u) ==
  /\ u.photo = 0
  /\ \/ /\ photoCount < MaxPhotos /\ photoCount' = photoCount + 1
        /\ blobs' = blobs \cup {photoCount'}
        /\ uploads' = (uploads \ {u}) \cup {[u EXCEPT !.photo = photoCount']}
     \/ uploads' = uploads \ {u} /\ UNCHANGED <<blobs, photoCount>>
  /\ UNCHANGED <<gate, mount, handle, doc, ready, saveState, lastKey, dirty, debounce, fetching, savedDoc, removals,
                 puts, staged, drafts, typed, crossed, edits, faults>>

\* forgetStaged.
Forgets(old, new) == removals' = IF old \in {0, new} THEN removals ELSE removals \cup {old}

\* Crossing, reverted: onChange closed over the header as it was when the upload began.
Uploaded(u) ==
  /\ u.photo # 0 /\ u.mount = mount /\ gate = "editor"
  /\ uploads' = uploads \ {u} /\ staged' = u.photo /\ Forgets(staged, u.photo)
  /\ Content([text |-> u.text, photo |-> u.photo])
  /\ typed' = [text |-> doc.text, photo |-> u.photo]
  /\ crossed' = (crossed \/ u.text # doc.text)
  /\ UNCHANGED <<photoCount, gate, mount, handle, ready, lastKey, fetching, savedDoc, blobs, puts, edits, faults>>

\* Crossing, outlived: the editor is gone, its photo is deleted and its draft written all the same.
UploadedLate(u) ==
  /\ u.photo # 0 /\ ~(u.mount = mount /\ gate = "editor")
  /\ uploads' = uploads \ {u} /\ Forgets(u.staged, u.photo) /\ crossed' = TRUE
  /\ drafts' = [drafts EXCEPT ![u.name] = [text |-> u.text, photo |-> u.photo]]
  /\ UNCHANGED <<photoCount, gate, mount, handle, doc, ready, saveState, lastKey, dirty, debounce, fetching, staged, savedDoc,
                 blobs, puts, typed, edits, faults>>

RemovePhoto ==
  /\ Editable /\ doc.photo # 0 /\ \A u \in uploads : u.mount # mount
  /\ Forgets(staged, 0) /\ staged' = 0
  /\ LET d == [doc EXCEPT !.photo = 0] IN
       /\ Content(d) /\ typed' = d
       /\ crossed' = (crossed \/ (d = lastKey /\ puts # {}))
  /\ UNCHANGED <<photoCount, gate, mount, handle, ready, lastKey, fetching, savedDoc, blobs, puts, uploads, edits, faults>>

\* delete_media also clears the profile that shows the photo.
RemovalServed(i) ==
  /\ i \in removals /\ removals' = removals \ {i} /\ blobs' = blobs \ {i}
  /\ savedDoc' = IF savedDoc.photo = i THEN [savedDoc EXCEPT !.photo = 0] ELSE savedDoc
  /\ UNCHANGED <<photoCount, gate, mount, handle, doc, ready, saveState, lastKey, dirty, debounce, fetching, puts, drafts,
                 typed, crossed, edits, faults, PhotoVars>>

EditorNext ==
  \/ GateAnswers \/ OpenEditor \/ LeaveEditor \/ Rename
  \/ FetchServed \/ DocLoaded \/ DocFails
  \/ \E t \in 1..MaxTexts : Edit(t)
  \/ Select \/ SaveStarts
  \/ \E p \in puts : SaveServed(p) \/ SaveAnswers(p)
  \/ UploadStarts \/ RemovePhoto
  \/ \E u \in uploads : UploadServed(u) \/ Uploaded(u) \/ UploadedLate(u)
  \/ \E i \in removals : RemovalServed(i)

-----------------------------------------------------------------------------
(***************************************************************************)
(* SavedIsTyped: what the user typed stays on the page, and once the       *)
(* editor says "Saved" with no timer, save, upload or delete left, the     *)
(* server and the local draft hold exactly it; except after one of the     *)
(* four crossings named above (ProfileEditPage.tsx:255-278 and             *)
(* AvatarCard.tsx:28-46).                                                  *)
(***************************************************************************)
SavedIsTyped ==
  gate = "editor" /\ ~crossed =>
    /\ typed # NoDoc => doc = typed
    /\ (saveState = "saved" /\ ~debounce /\ puts = {} /\ removals = {} /\ uploads = {}) =>
         savedDoc = doc /\ drafts[handle] = doc
=============================================================================
