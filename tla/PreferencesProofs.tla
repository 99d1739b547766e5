-------------------------- MODULE PreferencesProofs --------------------------
(***************************************************************************)
(* Theorems about Preferences: the copies of the settings agree, and the   *)
(* user's choice is what is stored, for every list of themes, all          *)
(* switches and delays, and any number of changes by other programs.       *)
(***************************************************************************)
EXTENDS Preferences, TLAPS

(***************************************************************************)
(* Rows and the lists that store them.                                     *)
(***************************************************************************)
LEMMA ThemeLists ==
  /\ ThemeList \in Seq(STRING)
  /\ Len(ThemeList) \in Nat /\ Len(ThemeList) > 1
  /\ ThemeList # <<>>
  /\ ThemeList[1] \in Themes
  BY PreferencesAssumption DEF Themes, Range

LEMMA RowsAre == Rows = {BlankOnly, Random} \cup Themes
<1>1. /\ Len(RowList) = 3 + Len(ThemeList)
      /\ DOMAIN RowList = 1..(3 + Len(ThemeList))
      /\ RowList[1] = BlankOnly /\ RowList[2] = Random /\ RowList[3] = Separator
      /\ \A i \in DOMAIN ThemeList : RowList[i + 3] = ThemeList[i]
      /\ \A i \in DOMAIN RowList : i > 3 => RowList[i] = ThemeList[i - 3]
  BY ThemeLists DEF RowList
<1>2. DOMAIN ThemeList = 1..Len(ThemeList)
  BY ThemeLists
<1>3. ASSUME NEW row \in Rows PROVE row \in {BlankOnly, Random} \cup Themes
  <2>1. PICK i \in DOMAIN RowList : row = RowList[i]
    BY DEF Rows, Range
  <2>2. CASE i > 3
    <3>1. i - 3 \in DOMAIN ThemeList /\ row = ThemeList[i - 3]
      BY <1>1, <1>2, <2>1, <2>2, ThemeLists
    <3>. QED
      BY <3>1 DEF Themes, Range
  <2>3. CASE ~(i > 3)
    <3>1. i = 1 \/ i = 2 \/ i = 3
      BY <1>1, <2>3, ThemeLists
    <3>. QED
      BY <1>1, <2>1, <3>1 DEF Rows
  <2>. QED
    BY <2>2, <2>3
<1>4. BlankOnly # Separator /\ Random # Separator /\ Separator \notin Themes
  BY PreferencesAssumption DEF BlankOnly, Random, Separator
<1>5. ASSUME NEW row \in Themes PROVE row \in Rows
  <2>1. PICK i \in DOMAIN ThemeList : row = ThemeList[i]
    BY DEF Themes, Range
  <2>2. i + 3 \in DOMAIN RowList /\ RowList[i + 3] = row
    BY <1>1, <1>2, <2>1, ThemeLists
  <2>. QED
    BY <1>4, <2>2 DEF Rows, Range
<1>6. BlankOnly \in Rows /\ Random \in Rows
  <2>1. 1 \in DOMAIN RowList /\ 2 \in DOMAIN RowList
    BY <1>1, ThemeLists
  <2>. QED
    BY <1>1, <1>4, <2>1 DEF Rows, Range
<1>. QED
  BY <1>3, <1>5, <1>6

LEMMA RowNames ==
  /\ Null \notin Rows
  /\ BlankOnly # Random
  /\ BlankOnly \notin Themes /\ Random \notin Themes /\ Null \notin Themes
  BY RowsAre, PreferencesAssumption DEF Null, BlankOnly, Random, Separator

\* What is stored for a row stands for that row.
LEMMA RowOfRow ==
  ASSUME NEW row \in Rows, NEW s, s.mode = ModeOf(row), s.themes = ListOf(row)
  PROVE  config_get_theme(s) = row
<1>1. CASE row = BlankOnly
  BY <1>1, RowNames DEF config_get_theme, ModeOf, ListOf
<1>2. CASE row = Random
  BY <1>2, RowNames DEF config_get_theme, ModeOf, ListOf
<1>3. CASE row \in Themes
  <2>1. s.mode = "single" /\ s.themes = <<row>>
    BY <1>3, RowNames DEF ModeOf, ListOf
  <2>2. <<row>> # <<>> /\ <<row>>[1] = row
    OBVIOUS
  <2>. QED
    BY <2>1, <2>2 DEF config_get_theme
<1>. QED
  BY <1>1, <1>2, <1>3, RowsAre

\* The list alone tells the row.
LEMMA ListTellsRow ==
  ASSUME NEW r \in Rows, NEW s \in Rows, ListOf(r) = ListOf(s)
  PROVE  r = s
<1>1. Len(ListOf(BlankOnly)) = 0
  BY DEF ListOf
<1>2. Len(ListOf(Random)) > 1 /\ Len(ListOf(Random)) \in Nat
  BY ThemeLists, RowNames DEF ListOf
<1>7. Len(ListOf(BlankOnly)) # 1 /\ Len(ListOf(Random)) # 1
  <2>1. Len(ListOf(BlankOnly)) # 1
    BY <1>1
  <2>2. \A n \in Nat : n > 1 => n # 1
    OBVIOUS
  <2>. QED
    BY <1>2, <2>1, <2>2, Zenon
<1>3. \A t \in Themes : ListOf(t) = <<t>>
  BY RowNames DEF ListOf
<1>4. \A t \in Themes : Len(ListOf(t)) = 1 /\ ListOf(t)[1] = t
  BY <1>3
<1>5. CASE r \in Themes
  <2>1. Len(ListOf(s)) = 1
    BY <1>4, <1>5
  <2>3. s # BlankOnly /\ s # Random
    BY <1>7, <2>1, Zenon
  <2>2. s \in Themes
    BY <2>3, RowsAre
  <2>. QED
    BY <1>4, <1>5, <2>2
<1>6. CASE s \in Themes
  <2>1. Len(ListOf(r)) = 1
    BY <1>4, <1>6
  <2>3. r # BlankOnly /\ r # Random
    BY <1>7, <2>1, Zenon
  <2>2. r \in Themes
    BY <2>3, RowsAre
  <2>. QED
    BY <1>4, <1>6, <2>2
<1>. QED
  BY <1>1, <1>2, <1>5, <1>6, RowsAre

LEMMA RowTypes ==
  ASSUME NEW row \in Rows
  PROVE  ModeOf(row) \in {"blank", "random", "single"} /\ ListOf(row) \in Lists
  BY RowsAre DEF ModeOf, ListOf, Lists

LEMMA SettingsRow ==
  ASSUME NEW s \in Settings
  PROVE  config_get_theme(s) \in Rows
<1>1. s.themes \in Lists
  BY DEF Settings
<1>2. s.themes = <<>> \/ s.themes[1] \in Themes
  BY <1>1, ThemeLists DEF Lists
<1>. QED
  BY <1>2, RowsAre DEF config_get_theme

-----------------------------------------------------------------------------
(***************************************************************************)
(* What remains of the dialog's handler is one of three things, and always *)
(* about the row that is selected.                                         *)
(***************************************************************************)
Told     == todo = <<<<"changed", selection>>>>
Begun    == todo = config_set_theme(selection)
HalfDone == todo = <<<<"set_themes", ListOf(selection)>>>>

Staged ==
  /\ todo = <<>> \/ Told \/ Begun \/ HalfDone
  /\ todo # <<>> => model_set
  /\ model_set => running /\ selection \in Rows
  /\ ~model_set => selection = Null

\* The preview and the configure button are about the selected row, once they
\* have been told of it.
Displayed ==
  /\ configurable => active_theme \in Themes
  /\ ~Told => /\ preview # Null => selection \in {Random, preview}
              /\ configurable => active_theme = selection

\* The places are told apart by the head of what remains.
LEMMA Places ==
  /\ Told => /\ todo # <<>> /\ Head(todo)[1] = "changed" /\ Head(todo)[2] = selection
             /\ Tail(todo) = <<>> /\ Len(todo) = 1
  /\ Begun => /\ todo # <<>> /\ Head(todo)[1] = "set_mode" /\ Head(todo)[2] = ModeOf(selection)
              /\ Tail(todo) = <<<<"set_themes", ListOf(selection)>>>> /\ Len(todo) = 2
  /\ HalfDone => /\ todo # <<>> /\ Head(todo)[1] = "set_themes"
                 /\ Head(todo)[2] = ListOf(selection)
                 /\ Tail(todo) = <<>> /\ Len(todo) = 1
<1>1. Told => /\ todo # <<>> /\ Head(todo)[1] = "changed" /\ Head(todo)[2] = selection
              /\ Tail(todo) = <<>> /\ Len(todo) = 1
  BY DEF Told
<1>2. Begun => /\ todo # <<>> /\ Head(todo)[1] = "set_mode" /\ Head(todo)[2] = ModeOf(selection)
               /\ Tail(todo) = <<<<"set_themes", ListOf(selection)>>>> /\ Len(todo) = 2
  BY DEF Begun, config_set_theme
<1>3. HalfDone => /\ todo # <<>> /\ Head(todo)[1] = "set_themes"
                  /\ Head(todo)[2] = ListOf(selection)
                  /\ Tail(todo) = <<>> /\ Len(todo) = 1
  BY DEF HalfDone
<1>. QED
  BY <1>1, <1>2, <1>3

\* Moving the cursor either tells of a new row or changes nothing.
LEMMA CursorMoves ==
  ASSUME NEW s, config_get_theme(s) \in Rows, setup_treeview_selection(s, <<>>)
  PROVE  /\ selection' = config_get_theme(s)
         /\ \/ selection' # selection /\ Told'
            \/ selection' = selection /\ todo' = <<>>
<1>1. CASE config_get_theme(s) \in Rows \ {selection}
  <2>1. /\ selection' = config_get_theme(s)
        /\ todo' = <<<<"changed", selection'>>>> \o <<>>
    BY <1>1 DEF setup_treeview_selection
  <2>2. todo' = <<<<"changed", selection'>>>>
    BY <2>1
  <2>. QED
    BY <1>1, <2>1, <2>2 DEF Told
<1>2. CASE config_get_theme(s) \notin Rows \ {selection}
  BY <1>2 DEF setup_treeview_selection
<1>. QED
  BY <1>1, <1>2

\* The three steps of the handler.
LEMMA HandlerIs ==
  ASSUME Staged, Handler
  PROVE  \/ Told /\ Begun' /\ tree_selection_changed_cb
         \/ Begun /\ HalfDone' /\ config_set_mode
         \/ HalfDone /\ SetThemes
<1>1. CASE tree_selection_changed_cb
  <2>1. Told
    BY <1>1, Places DEF tree_selection_changed_cb, Staged
  <2>2. todo' = config_set_theme(selection) \o <<>> /\ selection' = selection
    BY <1>1, <2>1, Places DEF tree_selection_changed_cb
  <2>3. Begun'
    BY <2>2 DEF Begun, config_set_theme
  <2>. QED
    BY <1>1, <2>1, <2>3
<1>2. CASE config_set_mode
  <2>1. Begun
    BY <1>2, Places DEF config_set_mode, Staged
  <2>2. HalfDone'
    BY <1>2, <2>1, Places DEF config_set_mode, HalfDone, treeVars
  <2>. QED
    BY <1>2, <2>1, <2>2
<1>3. CASE SetThemes
  <2>1. HalfDone
    BY <1>3, Places DEF SetThemes, Staged
  <2>. QED
    BY <1>3, <2>1
<1>. QED
  BY <1>1, <1>2, <1>3 DEF Handler

-----------------------------------------------------------------------------
(***************************************************************************)
(* Types.                                                                  *)
(***************************************************************************)
LEMMA SettingsFields ==
  ASSUME NEW s \in Settings
  PROVE  /\ s.mode \in {"blank", "random", "single"}
         /\ s.themes \in Lists
         /\ s.on \in [Switches -> BOOLEAN]
         /\ s.delay \in [Delays -> 0..MaxDelay + 1]
  BY DEF Settings

LEMMA SettingsMade ==
  ASSUME NEW m \in {"blank", "random", "single"}, NEW l \in Lists,
         NEW o \in [Switches -> BOOLEAN], NEW d \in [Delays -> 0..MaxDelay + 1]
  PROVE  [mode |-> m, themes |-> l, on |-> o, delay |-> d] \in Settings
  BY DEF Settings

\* What a write of one property changes, and that it leaves settings.
LEMMA ModeWritten ==
  ASSUME NEW s \in Settings, NEW m \in {"blank", "random", "single"}
  PROVE  /\ [s EXCEPT !.mode = m] \in Settings
         /\ [s EXCEPT !.mode = m].mode = m
         /\ [s EXCEPT !.mode = m].themes = s.themes
         /\ [s EXCEPT !.mode = m].on = s.on
         /\ [s EXCEPT !.mode = m].delay = s.delay
  BY DEF Settings

LEMMA ThemesWritten ==
  ASSUME NEW s \in Settings, NEW l \in Lists
  PROVE  /\ [s EXCEPT !.themes = l] \in Settings
         /\ [s EXCEPT !.themes = l].mode = s.mode
         /\ [s EXCEPT !.themes = l].themes = l
         /\ [s EXCEPT !.themes = l].on = s.on
         /\ [s EXCEPT !.themes = l].delay = s.delay
  BY DEF Settings

LEMMA SwitchWritten ==
  ASSUME NEW s \in Settings, NEW x \in Switches, NEW b \in BOOLEAN
  PROVE  /\ [s EXCEPT !.on[x] = b] \in Settings
         /\ [s EXCEPT !.on[x] = b].mode = s.mode
         /\ [s EXCEPT !.on[x] = b].themes = s.themes
         /\ [s EXCEPT !.on[x] = b].on = [s.on EXCEPT ![x] = b]
         /\ [s EXCEPT !.on[x] = b].delay = s.delay
<1>1. [s.on EXCEPT ![x] = b] \in [Switches -> BOOLEAN]
  BY SettingsFields
<1>. QED
  BY <1>1 DEF Settings

LEMMA DelayWritten ==
  ASSUME NEW s \in Settings, NEW x \in Delays, NEW v \in 0..MaxDelay + 1
  PROVE  /\ [s EXCEPT !.delay[x] = v] \in Settings
         /\ [s EXCEPT !.delay[x] = v].mode = s.mode
         /\ [s EXCEPT !.delay[x] = v].themes = s.themes
         /\ [s EXCEPT !.delay[x] = v].on = s.on
         /\ [s EXCEPT !.delay[x] = v].delay = [s.delay EXCEPT ![x] = v]
<1>1. [s.delay EXCEPT ![x] = v] \in [Delays -> 0..MaxDelay + 1]
  BY SettingsFields
<1>. QED
  BY <1>1 DEF Settings

LEMMA Bounds ==
  /\ MaxDelay \in Nat /\ UsedDelay \in Nat /\ 1 <= UsedDelay /\ UsedDelay <= MaxDelay
  BY PreferencesAssumption

LEMMA ShownBounds ==
  ASSUME NEW d, NEW v \in 0..MaxDelay + 1
  PROVE  /\ Shown(d, v) \in 0..MaxDelay
         /\ Shown(d, Shown(d, v)) = Shown(d, v)
<1>1. CASE d = "lock"
  BY <1>1, Bounds DEF Shown, Clamp
<1>2. CASE d # "lock"
  BY <1>2, Bounds DEF Shown, Clamp
<1>. QED
  BY <1>1, <1>2

LEMMA UsedBounds ==
  ASSUME NEW d, NEW v \in 0..MaxDelay + 1
  PROVE  Used(d, v) \in 0..MaxDelay + 1
<1>1. CASE d = "lock"
  BY <1>1, Bounds DEF Used, Clamp
<1>2. CASE d # "lock"
  <2>1. Clamp(10, 1, UsedDelay) \in 0..MaxDelay + 1
    BY Bounds DEF Clamp
  <2>2. Clamp(v, 1, UsedDelay) \in 0..MaxDelay + 1
    BY Bounds DEF Clamp
  <2>. QED
    BY <1>2, <2>1, <2>2 DEF Used
<1>. QED
  BY <1>1, <1>2

\* The keys of what differs.
LEMMA ChangedKeys ==
  ASSUME NEW new
  PROVE  Changed(new) \subseteq Keys
  BY DEF Changed, Keys

\* No property has the key of another.
LEMMA KeysApart ==
  /\ "mode" \notin Switches /\ "themes" \notin Switches
  /\ "mode" \notin Delays /\ "themes" \notin Delays
  /\ Switches \cap Delays = {}
  BY PreferencesAssumption

LEMMA Loaded ==
  ASSUME store \in Settings
  PROVE  /\ gs_prefs_load_from_settings \in Settings
         /\ gs_prefs_load_from_settings.mode = store.mode
         /\ gs_prefs_load_from_settings.themes = store.themes
         /\ gs_prefs_load_from_settings.on = store.on
         /\ \A d \in Delays :
              gs_prefs_load_from_settings.delay[d] = Used(d, store.delay[d])
<1>. DEFINE used == [d \in Delays |-> Used(d, store.delay[d])]
<1>1. \A d \in Delays : store.delay[d] \in 0..MaxDelay + 1
  BY DEF Settings
<1>2. used \in [Delays -> 0..MaxDelay + 1]
  BY <1>1, UsedBounds
<1>3. gs_prefs_load_from_settings = [store EXCEPT !.delay = used]
  BY DEF gs_prefs_load_from_settings
<1>4. \A d \in Delays : used[d] = Used(d, store.delay[d])
  OBVIOUS
<1>. HIDE DEF used
<1>. QED
  BY <1>2, <1>3, <1>4 DEF Settings

LEMMA WriteTypes ==
  ASSUME TypeOK, NEW new \in Settings, Write(new)
  PROVE  /\ store' = new /\ store' \in Settings /\ prefs' \in Settings
         /\ daemon_inbox' \subseteq Keys /\ dialog_inbox' \subseteq Keys
         /\ others' \in 0..MaxOthers /\ other_list' \in Rows \cup {Null}
  BY ChangedKeys DEF Write, TypeOK, otherVars

LEMMA OtherWriteTypes ==
  ASSUME TypeOK, NEW new \in Settings, OtherWrites(new)
  PROVE  /\ store' = new /\ store' \in Settings /\ prefs' \in Settings
         /\ daemon_inbox' \subseteq Keys /\ dialog_inbox' \subseteq Keys
  BY ChangedKeys DEF OtherWrites, TypeOK

LEMMA StagedLength == Staged => todo = <<>> \/ Len(todo) \in 1..2
<1>1. todo = <<>> \/ Len(todo) = 1 \/ Len(todo) = 2
      \/ ~Staged
  BY Places DEF Staged
<1>. QED
  BY <1>1

LEMMA CopiedTypes ==
  ASSUME TypeOK, NEW k \in Keys
  PROVE  Copied(k) \in Settings
<1>0. store \in Settings /\ prefs \in Settings
  BY DEF TypeOK
<1>1. CASE k \in Switches
  BY <1>0, <1>1, SettingsFields, SwitchWritten DEF Copied
<1>2. CASE k \in Delays
  <2>1. k \notin Switches
    BY <1>2, KeysApart
  <2>2. Used(k, store.delay[k]) \in 0..MaxDelay + 1
    BY <1>0, <1>2, SettingsFields, UsedBounds
  <2>3. [prefs EXCEPT !.delay[k] = Used(k, store.delay[k])] \in Settings
    BY <1>0, <1>2, <2>2, DelayWritten
  <2>. QED
    BY <1>2, <2>1, <2>3 DEF Copied
<1>3. CASE k = "mode"
  <2>1. Copied(k) = [prefs EXCEPT !.mode = store.mode]
    BY <1>3, KeysApart DEF Copied
  <2>2. store.mode \in {"blank", "random", "single"}
    BY <1>0, SettingsFields
  <2>3. [prefs EXCEPT !.mode = store.mode] \in Settings
    BY <1>0, <2>2, ModeWritten
  <2>. QED
    BY <2>1, <2>3
<1>4. CASE k = "themes"
  <2>1. Copied(k) = [prefs EXCEPT !.themes = store.themes]
    BY <1>4, KeysApart DEF Copied
  <2>. QED
    BY <1>0, <2>1, SettingsFields, ThemesWritten
<1>. QED
  BY <1>1, <1>2, <1>3, <1>4 DEF Keys

\* Everything but the length of what remains.
Typed ==
  /\ store \in Settings
  /\ others \in 0..MaxOthers
  /\ other_list \in Rows \cup {Null}
  /\ prefs \in Settings
  /\ daemon_inbox \subseteq Keys
  /\ running \in BOOLEAN
  /\ dialog_inbox \subseteq Keys
  /\ writable \subseteq Delays
  /\ active \in [Switches -> BOOLEAN]
  /\ spin \in [Delays -> 0..MaxDelay]
  /\ sensitive \subseteq writable
  /\ model_set \in BOOLEAN
  /\ selection \in Rows \cup {Null}
  /\ active_theme \in Themes \cup {Null, "xfce-blank"}
  /\ configurable \in BOOLEAN
  /\ preview \in Themes \cup {Null}
  /\ fullscreen \in BOOLEAN
  /\ chosen \in Rows \cup {Null}
  /\ mixed \in BOOLEAN

LEMMA TypeStep == TypeOK /\ Staged /\ [Next]_vars => Typed'
<1>. SUFFICES ASSUME TypeOK, Staged, [Next]_vars PROVE Typed'
  OBVIOUS
<1>. USE DEF otherVars, daemonVars, widgetVars, treeVars, dialogVars, history
<1>0. Typed /\ store \in Settings /\ config_get_theme(store) \in Rows
  BY SettingsRow DEF TypeOK, Typed
<1>1. CASE tree_selection_changed_cb
  <2>1. Told /\ selection \in Rows
    BY <1>1, Places, HandlerIs DEF tree_selection_changed_cb, Staged, Handler
  <2>2. /\ ConfigureButton(selection) /\ preview_set_theme(selection)
    BY <1>1, <2>1, Places DEF tree_selection_changed_cb
  <2>3. active_theme' \in Themes \cup {Null, "xfce-blank"}
    BY <2>1, <2>2, RowsAre DEF ConfigureButton
  <2>4. configurable' \in BOOLEAN
    BY <2>2, <1>0 DEF ConfigureButton, Typed
  <2>5. preview' \in Themes \cup {Null}
    BY <2>2 DEF preview_set_theme, Spawned
  <2>. QED
    BY <1>0, <1>1, <2>3, <2>4, <2>5 DEF tree_selection_changed_cb, Typed
<1>2. CASE config_set_mode
  <2>1. Begun /\ selection \in Rows
    BY <1>2, Places, HandlerIs DEF config_set_mode, Staged, Handler
  <2>2. ModeOf(selection) \in {"blank", "random", "single"}
    BY <2>1, RowTypes
  <2>3. Write([store EXCEPT !.mode = ModeOf(selection)])
    BY <1>2, <2>1, Places DEF config_set_mode
  <2>4. [store EXCEPT !.mode = ModeOf(selection)] \in Settings
    BY <1>0, <2>2, ModeWritten
  <2>5. /\ store' \in Settings /\ prefs' \in Settings
        /\ daemon_inbox' \subseteq Keys /\ dialog_inbox' \subseteq Keys
        /\ others' \in 0..MaxOthers /\ other_list' \in Rows \cup {Null}
    BY <2>3, <2>4, WriteTypes
  <2>. QED
    BY <1>0, <1>2, <2>5 DEF config_set_mode, Typed
<1>3. CASE SetThemes
  <2>1. HalfDone /\ selection \in Rows
    BY <1>3, Places, HandlerIs DEF SetThemes, Staged, Handler
  <2>. DEFINE new == [store EXCEPT !.themes = ListOf(selection)]
  <2>2. new \in Settings
    BY <1>0, <2>1, RowTypes, ThemesWritten
  <2>3. /\ Write(new)
        /\ setup_treeview_selection(new, Tail(todo)) \/ UNCHANGED selection
    BY <1>3, <2>1, Places DEF SetThemes
  <2>4. config_get_theme(new) \in Rows
    BY <2>2, SettingsRow
  <2>. HIDE DEF new
  <2>5. /\ store' \in Settings /\ prefs' \in Settings
        /\ daemon_inbox' \subseteq Keys /\ dialog_inbox' \subseteq Keys
        /\ others' \in 0..MaxOthers /\ other_list' \in Rows \cup {Null}
    BY <2>2, <2>3, WriteTypes
  <2>6. selection' \in Rows \cup {Null}
    BY <2>1, <2>3, <2>4 DEF setup_treeview_selection
  <2>. QED
    BY <1>0, <1>3, <2>5, <2>6 DEF SetThemes, Typed
<1>a. ASSUME NEW row \in Rows, Select(row) PROVE Typed'
  BY <1>0, <1>a DEF Select, Typed
<1>4. CASE SelectRow
  BY <1>4, <1>a DEF SelectRow
<1>5. CASE fullscreen_preview_step
  <2>1. PICK row \in Neighbours(selection) : Select(row)
    BY <1>5 DEF fullscreen_preview_step
  <2>2. row \in Rows
    BY DEF Neighbours, Rows, Range
  <2>. QED
    BY <2>1, <2>2, <1>a
<1>b. ASSUME NEW on \in BOOLEAN, fullscreen_preview(on) PROVE Typed'
  <2>1. preview' \in Themes \cup {Null}
    BY <1>0, <1>b DEF fullscreen_preview, Spawned, Typed
  <2>. QED
    BY <1>0, <1>b, <2>1 DEF fullscreen_preview, Typed
<1>6. CASE fullscreen_preview_start_cb
  BY <1>6, <1>b DEF fullscreen_preview_start_cb
<1>7. CASE fullscreen_preview_cancelled_cb
  BY <1>7, <1>b DEF fullscreen_preview_cancelled_cb
<1>8. CASE gs_job_died
  BY <1>0, <1>8 DEF gs_job_died, Typed
<1>9. CASE SwitchToggled
  <2>1. PICK x \in Switches :
          LET on == [active EXCEPT ![x] = ~@]
          IN  active' = on /\ sensitive' = Sensitive(on) /\ StoreSwitch(x, on[x])
    BY <1>9 DEF SwitchToggled
  <2>. DEFINE on == [active EXCEPT ![x] = ~@]
  <2>2. on \in [Switches -> BOOLEAN] /\ on[x] \in BOOLEAN
    BY <1>0 DEF Typed
  <2>3. [store EXCEPT !.on[x] = on[x]] \in Settings
    BY <1>0, <2>2, SwitchWritten
  <2>4. Write([store EXCEPT !.on[x] = on[x]])
    BY <2>1 DEF StoreSwitch
  <2>5. active' = on /\ sensitive' \subseteq writable
    BY <2>1 DEF Sensitive
  <2>. HIDE DEF on
  <2>6. /\ store' \in Settings /\ prefs' \in Settings
        /\ daemon_inbox' \subseteq Keys /\ dialog_inbox' \subseteq Keys
        /\ others' \in 0..MaxOthers /\ other_list' \in Rows \cup {Null}
    BY <2>3, <2>4, WriteTypes
  <2>. QED
    BY <1>0, <1>9, <2>2, <2>5, <2>6 DEF SwitchToggled, Typed
<1>10. CASE DelayChanged
  <2>1. PICK d \in sensitive, v \in 0..MaxDelay :
          /\ spin' = [spin EXCEPT ![d] = v]
          /\ Write([store EXCEPT !.delay[d] = v])
    BY <1>10 DEF DelayChanged
  <2>2. d \in Delays /\ v \in 0..MaxDelay + 1
    BY <1>0, Bounds DEF Typed
  <2>3. [store EXCEPT !.delay[d] = v] \in Settings
    BY <1>0, <2>2, DelayWritten
  <2>4. spin' \in [Delays -> 0..MaxDelay]
    BY <1>0, <2>1 DEF Typed
  <2>5. /\ store' \in Settings /\ prefs' \in Settings
        /\ daemon_inbox' \subseteq Keys /\ dialog_inbox' \subseteq Keys
        /\ others' \in 0..MaxOthers /\ other_list' \in Rows \cup {Null}
    BY <2>1, <2>3, WriteTypes
  <2>. QED
    BY <1>0, <1>10, <2>4, <2>5 DEF DelayChanged, Typed
<1>11. CASE configure_capplet
  <2>1. active' = store.on /\ sensitive' \subseteq writable
    BY <1>11 DEF configure_capplet, ShowSettings, Sensitive
  <2>2. spin' \in [Delays -> 0..MaxDelay]
    <3>1. \A d \in Delays : Shown(d, store.delay[d]) \in 0..MaxDelay
      BY <1>0, SettingsFields, ShownBounds
    <3>2. spin' = [d \in Delays |-> Shown(d, store.delay[d])]
      BY <1>11 DEF configure_capplet, ShowSettings
    <3>. QED
      BY <3>1, <3>2
  <2>. DEFINE l == IF store.mode = "random" THEN ThemeList ELSE store.themes
  <2>3. l \in Lists
    BY <1>0, SettingsFields DEF Lists
  <2>4. Write([store EXCEPT !.themes = l])
    BY <1>11 DEF configure_capplet
  <2>5. [store EXCEPT !.themes = l] \in Settings
    BY <1>0, <2>3, ThemesWritten
  <2>. HIDE DEF l
  <2>6. /\ store' \in Settings /\ prefs' \in Settings
        /\ daemon_inbox' \subseteq Keys /\ dialog_inbox' \subseteq Keys
        /\ others' \in 0..MaxOthers /\ other_list' \in Rows \cup {Null}
    BY <2>4, <2>5, WriteTypes
  <2>7. active' \in [Switches -> BOOLEAN]
    BY <1>0, <2>1, SettingsFields
  <2>. QED
    BY <1>0, <1>11, <2>1, <2>2, <2>6, <2>7 DEF configure_capplet, Typed
<1>12. CASE setup_treeview_idle
  <2>1. selection' \in Rows \cup {Null}
    BY <1>0, <1>12 DEF setup_treeview_idle, setup_treeview_selection, Typed
  <2>. QED
    BY <1>0, <1>12, <2>1 DEF setup_treeview_idle, Typed
<1>13. CASE response_cb
  <2>1. spin' \in [Delays -> 0..MaxDelay] /\ active' \in [Switches -> BOOLEAN]
    BY <1>13, Bounds DEF response_cb
  <2>. QED
    BY <1>0, <1>13, <2>1 DEF response_cb, Typed
<1>14. CASE key_changed_cb
  <2>1. PICK k \in dialog_inbox :
          /\ dialog_inbox' = dialog_inbox \ {k}
          /\ \/ /\ k \in Switches
                /\ ui_set_switch(k)
             \/ /\ k \in Delays
                /\ ui_set_delay(k)
             \/ /\ k = "themes"
                /\ ui_set_theme
             \/ /\ k = "mode"
                /\ UNCHANGED <<store, daemonVars, active, spin, sensitive,
                               selection, todo>>
    BY <1>14 DEF key_changed_cb
  <2>2. /\ UNCHANGED <<otherVars, running, writable, model_set, active_theme,
                       configurable, preview, fullscreen, history>>
        /\ dialog_inbox' \subseteq Keys
    BY <1>0, <1>14, <2>1 DEF key_changed_cb, Typed
  <2>3. CASE k \in Switches /\ ui_set_switch(k)
    <3>1. active' \in [Switches -> BOOLEAN]
      BY <1>0, <2>3, SettingsFields DEF ui_set_switch, Typed
    <3>2. sensitive' \subseteq writable
      BY <2>3 DEF ui_set_switch, Sensitive
    <3>3. UNCHANGED <<store, daemonVars, spin, selection, todo>>
      BY <2>3 DEF ui_set_switch
    <3>. QED
      BY <1>0, <2>2, <3>1, <3>2, <3>3 DEF Typed
  <2>4. CASE k \in Delays /\ ui_set_delay(k)
    <3>. DEFINE v == Shown(k, store.delay[k])
                w == IF v # spin[k] THEN v ELSE store.delay[k]
    <3>1. store.delay[k] \in 0..MaxDelay + 1
      BY <1>0, <2>4, SettingsFields
    <3>2. v \in 0..MaxDelay /\ 0..MaxDelay \subseteq 0..MaxDelay + 1
      BY <3>1, ShownBounds, Bounds
    <3>3. w \in 0..MaxDelay + 1
      BY <3>1, <3>2
    <3>4. store' = [store EXCEPT !.delay[k] = w] /\ spin' = [spin EXCEPT ![k] = v]
      BY <2>4 DEF ui_set_delay
    <3>5. store' \in Settings
      <4>. HIDE DEF w
      <4>. QED
        BY <1>0, <2>4, <3>3, <3>4, DelayWritten
    <3>6. spin' \in [Delays -> 0..MaxDelay]
      <4>. HIDE DEF v
      <4>. QED
        BY <1>0, <3>2, <3>4 DEF Typed
    <3>7. daemon_inbox' \subseteq Keys
      BY <1>0, <2>4, ChangedKeys DEF ui_set_delay, Typed
    <3>. QED
      BY <1>0, <2>2, <2>4, <3>5, <3>6, <3>7 DEF ui_set_delay, Typed
  <2>5. CASE ui_set_theme
    <3>1. selection' \in Rows \cup {Null}
      BY <1>0, <2>5 DEF ui_set_theme, setup_treeview_selection, Typed
    <3>. QED
      BY <1>0, <2>2, <2>5, <3>1 DEF ui_set_theme, Typed
  <2>6. CASE UNCHANGED <<store, daemonVars, active, spin, sensitive, selection, todo>>
    BY <1>0, <2>2, <2>6 DEF Typed
  <2>. QED
    BY <2>1, <2>3, <2>4, <2>5, <2>6
<1>15. CASE PrefsChanged
  <2>1. daemon_inbox' \subseteq Keys /\ prefs' \in Settings
    BY <1>0, <1>15, CopiedTypes DEF PrefsChanged, Typed
  <2>. QED
    BY <1>0, <1>15, <2>1 DEF PrefsChanged, Typed
<1>16. CASE OtherSets
  <2>1. others' \in 0..MaxOthers
    BY <1>0, <1>16, PreferencesAssumption DEF OtherSets, Typed
  <2>2. PICK new \in Settings : OtherWrites(new)
    <3>1. CASE \E x \in Switches : OtherWrites([store EXCEPT !.on[x] = ~@])
      <4>1. PICK x \in Switches : OtherWrites([store EXCEPT !.on[x] = ~@])
        BY <3>1
      <4>2. (~store.on[x]) \in BOOLEAN
        OBVIOUS
      <4>3. [store EXCEPT !.on[x] = ~@] \in Settings
        BY <1>0, <4>2, SwitchWritten
      <4>. QED
        BY <4>1, <4>3
    <3>2. CASE \E d \in Delays, v \in 0..MaxDelay + 1 : OtherWrites([store EXCEPT !.delay[d] = v])
      BY <1>0, <3>2, DelayWritten
    <3>. QED
      BY <1>16, <3>1, <3>2 DEF OtherSets
  <2>3. /\ store' \in Settings /\ prefs' \in Settings
        /\ daemon_inbox' \subseteq Keys /\ dialog_inbox' \subseteq Keys
    BY <2>2, OtherWriteTypes
  <2>. QED
    BY <1>0, <1>16, <2>1, <2>3 DEF OtherSets, Typed
<1>17. CASE OtherSetsMode
  <2>1. others' \in 0..MaxOthers
    BY <1>0, <1>17, PreferencesAssumption DEF OtherSetsMode, Typed
  <2>2. PICK row \in Rows : OtherWrites([store EXCEPT !.mode = ModeOf(row)]) /\ other_list' = row
    BY <1>17 DEF OtherSetsMode
  <2>3. [store EXCEPT !.mode = ModeOf(row)] \in Settings
    BY <1>0, RowTypes, ModeWritten
  <2>4. /\ store' \in Settings /\ prefs' \in Settings
        /\ daemon_inbox' \subseteq Keys /\ dialog_inbox' \subseteq Keys
    BY <2>2, <2>3, OtherWriteTypes
  <2>. QED
    BY <1>0, <1>17, <2>1, <2>2, <2>4 DEF OtherSetsMode, Typed
<1>18. CASE OtherSetsThemes
  <2>1. other_list \in Rows /\ OtherWrites([store EXCEPT !.themes = ListOf(other_list)])
    BY <1>0, <1>18 DEF OtherSetsThemes, Typed
  <2>2. [store EXCEPT !.themes = ListOf(other_list)] \in Settings
    BY <1>0, <2>1, RowTypes, ThemesWritten
  <2>3. /\ store' \in Settings /\ prefs' \in Settings
        /\ daemon_inbox' \subseteq Keys /\ dialog_inbox' \subseteq Keys
    BY <2>1, <2>2, OtherWriteTypes
  <2>. QED
    BY <1>0, <1>18, <2>3 DEF OtherSetsThemes, Typed
<1>19. CASE UNCHANGED vars
  BY <1>0, <1>19 DEF vars, Typed
<1>. QED
  BY <1>1, <1>2, <1>3, <1>4, <1>5, <1>6, <1>7, <1>8, <1>9, <1>10, <1>11, <1>12, <1>13, <1>14,
     <1>15, <1>16, <1>17, <1>18, <1>19 DEF Next, Handler

-----------------------------------------------------------------------------
(***************************************************************************)
(* The dialog's handler, its preview and its configure button.             *)
(***************************************************************************)
LEMMA SetThemesIs ==
  ASSUME TypeOK, HalfDone, selection \in Rows, SetThemes
  PROVE  /\ store' = [store EXCEPT !.themes = ListOf(selection)]
         /\ store' \in Settings
         /\ \/ selection' = config_get_theme(store') /\ selection' # selection /\ Told'
            \/ /\ selection' = selection /\ todo' = <<>>
               /\ store' = store \/ selection = config_get_theme(store')
<1>1. store' = [store EXCEPT !.themes = ListOf(selection)]
  BY Places DEF SetThemes, Write
<1>2. store' \in Settings
  BY <1>1, RowTypes, ThemesWritten DEF TypeOK
<1>3. \/ setup_treeview_selection(store', <<>>)
      \/ store' = store /\ todo' = <<>> /\ selection' = selection
  BY <1>1, Places DEF SetThemes
<1>4. config_get_theme(store') \in Rows
  BY <1>2, SettingsRow
<1>5. CASE setup_treeview_selection(store', <<>>)
  BY <1>1, <1>2, <1>4, <1>5, CursorMoves
<1>6. CASE store' = store /\ todo' = <<>> /\ selection' = selection
  BY <1>1, <1>2, <1>6
<1>. QED
  BY <1>3, <1>5, <1>6

LEMMA NotTold == todo = <<>> => ~Told /\ ~Begun /\ ~HalfDone
  BY Places

\* What a step of the list's widgets does to the stages.
LEMMA StagedStep ==
  TypeOK /\ Staged /\ Displayed /\ [Next]_vars => (Staged /\ Displayed)'
<1>. SUFFICES ASSUME TypeOK, Staged, Displayed, [Next]_vars PROVE Staged' /\ Displayed'
  OBVIOUS
<1>. USE DEF otherVars, daemonVars, widgetVars, treeVars, dialogVars, history
<1>0. store \in Settings /\ config_get_theme(store) \in Rows
  BY SettingsRow DEF TypeOK
<1>a. ASSUME UNCHANGED <<running, model_set, selection, active_theme, configurable,
                         preview, todo>>
      PROVE  Staged' /\ Displayed'
  BY <1>a DEF Staged, Displayed, Told, Begun, HalfDone
<1>1. CASE tree_selection_changed_cb
  <2>1. Told /\ selection \in Rows /\ Begun'
    BY <1>1, Places, HandlerIs DEF tree_selection_changed_cb, Staged, Handler
  <2>2. /\ ConfigureButton(selection) /\ preview_set_theme(selection)
        /\ UNCHANGED <<running, model_set, selection>>
    BY <1>1, <2>1, Places DEF tree_selection_changed_cb
  <2>3. todo' # <<>> /\ model_set
    BY <2>1, Places DEF Begun, config_set_theme, Staged
  <2>4. Staged'
    BY <2>1, <2>2, <2>3 DEF Staged
  <2>5. preview' # Null => selection \in {Random, preview'}
    BY <2>2, RowNames DEF preview_set_theme, Spawned
  <2>6. configurable' => active_theme' = selection /\ active_theme' \in Themes
    <3>1. CASE selection \in Themes
      BY <2>2, <3>1, RowNames DEF ConfigureButton
    <3>2. CASE selection \notin Themes
      BY <2>2, <3>2, RowNames DEF ConfigureButton, Displayed
    <3>. QED
      BY <3>1, <3>2
  <2>. QED
    BY <2>2, <2>4, <2>5, <2>6 DEF Displayed
<1>2. CASE config_set_mode
  <2>1. Begun /\ HalfDone' /\ UNCHANGED <<running, treeVars>>
    BY <1>2, Places, HandlerIs DEF config_set_mode, Staged, Handler
  <2>2. todo # <<>> /\ model_set /\ ~Told
    BY <2>1, Places DEF Staged
  <2>3. Staged'
    BY <2>1, <2>2 DEF Staged
  <2>. QED
    BY <2>1, <2>2, <2>3 DEF Displayed
<1>3. CASE SetThemes
  <2>1. HalfDone /\ selection \in Rows /\ model_set /\ running /\ ~Told
    BY <1>3, Places, HandlerIs DEF SetThemes, Staged, Handler
  <2>2. /\ store' \in Settings
        /\ \/ selection' = config_get_theme(store') /\ Told'
           \/ selection' = selection /\ todo' = <<>>
    BY <1>3, <2>1, SetThemesIs
  <2>3. UNCHANGED <<running, model_set, active_theme, configurable, preview>>
    BY <1>3 DEF SetThemes
  <2>4. selection' \in Rows
    BY <2>1, <2>2, SettingsRow
  <2>5. Staged'
    BY <2>1, <2>2, <2>3, <2>4 DEF Staged
  <2>6. selection' = selection \/ Told'
    BY <2>2
  <2>. QED
    BY <2>1, <2>3, <2>5, <2>6 DEF Displayed
<1>b. ASSUME NEW row \in Rows, Select(row), running, model_set PROVE Staged' /\ Displayed'
  <2>1. /\ Told' /\ selection' = row
        /\ UNCHANGED <<running, model_set, active_theme, configurable>>
    BY <1>b DEF Select, Told
  <2>. QED
    BY <1>b, <2>1 DEF Staged, Displayed
<1>4. CASE SelectRow
  BY <1>4, <1>b DEF SelectRow, Presented
<1>5. CASE fullscreen_preview_step
  <2>1. PICK row \in Neighbours(selection) : Select(row)
    BY <1>5 DEF fullscreen_preview_step
  <2>2. row \in Rows
    BY DEF Neighbours, Rows, Range
  <2>3. running /\ model_set
    <3>1. selection # Null
      <4>1. PICK i \in DOMAIN RowList : RowList[i] = selection
        BY DEF Neighbours
      <4>2. selection \in Range(RowList)
        BY <4>1 DEF Range
      <4>3. Null # Separator /\ Null \notin Rows
        BY RowNames DEF Null, Separator
      <4>. QED
        BY <4>2, <4>3 DEF Rows
    <3>. QED
      BY <3>1 DEF Staged
  <2>. QED
    BY <2>1, <2>2, <2>3, <1>b
<1>c. ASSUME NEW on \in BOOLEAN, fullscreen_preview(on) PROVE Staged' /\ Displayed'
  <2>1. /\ todo = <<>>
        /\ UNCHANGED <<running, model_set, selection, active_theme, configurable, todo>>
        /\ preview' = Null \/ preview' = preview
    BY <1>c DEF fullscreen_preview, Spawned
  <2>. QED
    BY <2>1 DEF Staged, Displayed, Told, Begun, HalfDone
<1>6. CASE fullscreen_preview_start_cb
  BY <1>6, <1>c DEF fullscreen_preview_start_cb
<1>7. CASE fullscreen_preview_cancelled_cb
  BY <1>7, <1>c DEF fullscreen_preview_cancelled_cb
<1>8. CASE gs_job_died
  <2>1. /\ UNCHANGED <<running, model_set, selection, active_theme, configurable, todo>>
        /\ preview' = Null
    BY <1>8 DEF gs_job_died
  <2>. QED
    BY <2>1 DEF Staged, Displayed, Told, Begun, HalfDone
<1>9. CASE SwitchToggled
  BY <1>9, <1>a DEF SwitchToggled
<1>10. CASE DelayChanged
  BY <1>10, <1>a DEF DelayChanged
<1>11. CASE configure_capplet
  <2>1. /\ ~running /\ running'
        /\ UNCHANGED <<model_set, selection, active_theme, configurable, preview, todo>>
    BY <1>11 DEF configure_capplet
  <2>. QED
    BY <2>1 DEF Staged, Displayed, Told, Begun, HalfDone
<1>12. CASE setup_treeview_idle
  <2>1. /\ running /\ model_set' /\ ~model_set
        /\ UNCHANGED <<running, active_theme, configurable, preview>>
        /\ setup_treeview_selection(store, <<>>)
    BY <1>12 DEF setup_treeview_idle
  <2>2. /\ selection' = config_get_theme(store)
        /\ Told' \/ selection' = selection
    BY <1>0, <2>1, CursorMoves
  <2>3. Told'
    BY <1>0, <2>1, <2>2, RowNames DEF Staged
  <2>. QED
    BY <1>0, <2>1, <2>2, <2>3 DEF Staged, Displayed
<1>13. CASE response_cb
  <2>1. /\ todo' = <<>> /\ ~model_set' /\ selection' = Null
        /\ preview' = Null /\ ~configurable'
    BY <1>13 DEF response_cb, Presented
  <2>. QED
    BY <2>1 DEF Staged, Displayed
<1>14. CASE key_changed_cb
  <2>1. /\ UNCHANGED <<running, model_set, active_theme, configurable, preview>>
        /\ todo = <<>>
        /\ \/ UNCHANGED <<selection, todo>>
           \/ ui_set_theme
    BY <1>14 DEF key_changed_cb, ui_set_switch, ui_set_delay
  <2>2. CASE UNCHANGED <<selection, todo>>
    BY <1>a, <2>1, <2>2
  <2>3. CASE model_set /\ setup_treeview_selection(store, <<>>)
    <3>1. /\ selection' = config_get_theme(store)
          /\ Told' \/ (selection' = selection /\ todo' = todo)
      BY <1>0, <2>1, <2>3, CursorMoves
    <3>2. CASE selection' = selection /\ todo' = todo
      BY <1>a, <2>1, <3>2
    <3>3. CASE Told'
      BY <1>0, <2>1, <2>3, <3>1, <3>3 DEF Staged, Displayed
    <3>. QED
      BY <3>1, <3>2, <3>3
  <2>. QED
    BY <2>1, <2>2, <2>3 DEF ui_set_theme
<1>15. CASE PrefsChanged
  BY <1>15, <1>a DEF PrefsChanged
<1>16. CASE OtherSets
  BY <1>16, <1>a DEF OtherSets
<1>17. CASE OtherSetsMode
  BY <1>17, <1>a DEF OtherSetsMode
<1>18. CASE OtherSetsThemes
  BY <1>18, <1>a DEF OtherSetsThemes
<1>19. CASE UNCHANGED vars
  BY <1>19, <1>a DEF vars
<1>. QED
  BY <1>1, <1>2, <1>3, <1>4, <1>5, <1>6, <1>7, <1>8, <1>9, <1>10, <1>11, <1>12, <1>13, <1>14,
     <1>15, <1>16, <1>17, <1>18, <1>19 DEF Next, Handler

LEMMA TypesKept == TypeOK /\ Staged /\ Displayed /\ [Next]_vars => TypeOK'
<1>. SUFFICES ASSUME TypeOK, Staged, Displayed, [Next]_vars PROVE TypeOK'
  OBVIOUS
<1>1. Typed' /\ Staged'
  BY TypeStep, StagedStep
<1>2. Len(todo') <= 2
  <2>1. CASE todo' = <<>>
    BY <2>1
  <2>2. CASE Told'
    BY <2>2 DEF Told
  <2>3. CASE Begun'
    BY <2>3 DEF Begun, config_set_theme
  <2>4. CASE HalfDone'
    BY <2>4 DEF HalfDone
  <2>. QED
    BY <1>1, <2>1, <2>2, <2>3, <2>4 DEF Staged
<1>. QED
  BY <1>1, <1>2 DEF TypeOK, Typed

-----------------------------------------------------------------------------
(***************************************************************************)
(* The copies.  What a process has is what is stored, but for the keys it  *)
(* is yet to hear of, and for a dialog at any point of its handler.        *)
(***************************************************************************)
Copies ==
  /\ \A k \in {"mode", "themes"} \ daemon_inbox : prefs[k] = store[k]
  /\ \A s \in Switches \ daemon_inbox : prefs.on[s] = store.on[s]
  /\ \A d \in Delays \ daemon_inbox : prefs.delay[d] = Used(d, store.delay[d])

Shows == running => WidgetsFollow

LEMMA CopiesFollow == TypeOK /\ Copies => DaemonFollows
<1>. SUFFICES ASSUME TypeOK, Copies PROVE DaemonFollows
  OBVIOUS
<1>. DEFINE p == gs_prefs_load_from_settings
<1>1. /\ p["mode"] = store["mode"] /\ p["themes"] = store["themes"] /\ p.on = store.on
      /\ \A d \in Delays : p.delay[d] = Used(d, store.delay[d])
  BY Loaded DEF TypeOK
<1>. HIDE DEF p
<1>2. \A k \in {"mode", "themes"} \ daemon_inbox : prefs[k] = p[k]
  BY <1>1 DEF Copies
<1>3. \A s \in Switches \ daemon_inbox : prefs.on[s] = p.on[s]
  BY <1>1 DEF Copies
<1>4. \A d \in Delays \ daemon_inbox : prefs.delay[d] = p.delay[d]
  BY <1>1 DEF Copies
<1>. QED
  BY <1>2, <1>3, <1>4 DEF DaemonFollows, p

LEMMA ChangedIs ==
  ASSUME NEW new
  PROVE  /\ "mode" \notin Changed(new) => new["mode"] = store["mode"]
         /\ "themes" \notin Changed(new) => new["themes"] = store["themes"]
         /\ \A s \in Switches \ Changed(new) : new.on[s] = store.on[s]
         /\ \A d \in Delays \ Changed(new) : new.delay[d] = store.delay[d]
  BY DEF Changed

LEMMA CopiesByWrite ==
  ASSUME Copies, daemon_inbox' = daemon_inbox \cup Changed(store'), prefs' = prefs
  PROVE  Copies'
<1>1. \A k \in {"mode", "themes"} \ daemon_inbox' : prefs'[k] = store'[k]
  BY ChangedIs DEF Copies
<1>2. \A s \in Switches \ daemon_inbox' : prefs'.on[s] = store'.on[s]
  BY ChangedIs DEF Copies
<1>3. \A d \in Delays \ daemon_inbox' : prefs'.delay[d] = Used(d, store'.delay[d])
  <2>1. \A d \in Delays \ daemon_inbox' : prefs'.delay[d] = Used(d, store.delay[d])
    BY DEF Copies
  <2>2. \A d \in Delays \ daemon_inbox' : store'.delay[d] = store.delay[d]
    BY ChangedIs
  <2>. QED
    BY <2>1, <2>2
<1>. QED
  BY <1>1, <1>2, <1>3 DEF Copies

LEMMA CopiesStep == TypeOK /\ Copies /\ [Next]_vars => Copies'
<1>. SUFFICES ASSUME TypeOK, Copies, [Next]_vars PROVE Copies'
  OBVIOUS
<1>. USE DEF otherVars, daemonVars, widgetVars, treeVars, dialogVars, history
<1>a. ASSUME UNCHANGED <<store, prefs, daemon_inbox>> PROVE Copies'
  BY <1>a DEF Copies
<1>b. ASSUME NEW new, Write(new) PROVE Copies'
  BY <1>b, CopiesByWrite DEF Write
<1>c. ASSUME NEW new, OtherWrites(new) PROVE Copies'
  BY <1>c, CopiesByWrite DEF OtherWrites
<1>1. CASE tree_selection_changed_cb
  BY <1>1, <1>a DEF tree_selection_changed_cb
<1>2. CASE config_set_mode
  BY <1>2, <1>b DEF config_set_mode
<1>3. CASE SetThemes
  BY <1>3, <1>b DEF SetThemes
<1>4. CASE SelectRow
  BY <1>4, <1>a DEF SelectRow, Select
<1>5. CASE fullscreen_preview_step
  BY <1>5, <1>a DEF fullscreen_preview_step, Select
<1>6. CASE fullscreen_preview_start_cb
  BY <1>6, <1>a DEF fullscreen_preview_start_cb, fullscreen_preview
<1>7. CASE fullscreen_preview_cancelled_cb
  BY <1>7, <1>a DEF fullscreen_preview_cancelled_cb, fullscreen_preview
<1>8. CASE gs_job_died
  BY <1>8, <1>a DEF gs_job_died
<1>9. CASE SwitchToggled
  BY <1>9, <1>b DEF SwitchToggled, StoreSwitch
<1>10. CASE DelayChanged
  BY <1>10, <1>b DEF DelayChanged
<1>11. CASE configure_capplet
  BY <1>11, <1>b DEF configure_capplet
<1>12. CASE setup_treeview_idle
  BY <1>12, <1>a DEF setup_treeview_idle
<1>13. CASE response_cb
  BY <1>13, <1>a DEF response_cb
<1>14. CASE key_changed_cb
  <2>1. \/ UNCHANGED <<store, prefs, daemon_inbox>>
        \/ \E d \in Delays : ui_set_delay(d)
    BY <1>14 DEF key_changed_cb, ui_set_switch, ui_set_theme
  <2>2. ASSUME NEW d \in Delays, ui_set_delay(d) PROVE Copies'
    BY <2>2, CopiesByWrite DEF ui_set_delay
  <2>. QED
    BY <2>1, <2>2, <1>a
<1>15. CASE PrefsChanged
  <2>1. PICK k \in daemon_inbox : daemon_inbox' = daemon_inbox \ {k} /\ prefs' = Copied(k)
    BY <1>15 DEF PrefsChanged
  <2>2. store' = store /\ k \in Keys /\ prefs \in Settings
    BY <1>15 DEF PrefsChanged, TypeOK
  <2>3. CASE k \in Switches
    <3>1. prefs' = [prefs EXCEPT !.on[k] = store.on[k]] /\ k \notin {"mode", "themes"} \cup Delays
      BY <2>1, <2>3, KeysApart DEF Copied
    <3>2. store.on[k] \in BOOLEAN
      BY <2>3, SettingsFields DEF TypeOK
    <3>3. /\ prefs'.mode = prefs.mode /\ prefs'.themes = prefs.themes
          /\ prefs'.delay = prefs.delay /\ prefs'.on = [prefs.on EXCEPT ![k] = store.on[k]]
      BY <2>2, <2>3, <3>1, <3>2, SwitchWritten
    <3>4. \A s \in Switches : prefs'.on[s] = IF s = k THEN store.on[s] ELSE prefs.on[s]
      BY <2>2, <3>3, SettingsFields
    <3>. QED
      BY <2>1, <2>2, <3>1, <3>3, <3>4 DEF Copies
  <2>4. CASE k \in Delays
    <3>1. /\ prefs' = [prefs EXCEPT !.delay[k] = Used(k, store.delay[k])]
          /\ k \notin {"mode", "themes"} \cup Switches
      BY <2>1, <2>4, KeysApart DEF Copied
    <3>2. Used(k, store.delay[k]) \in 0..MaxDelay + 1
      BY <2>4, SettingsFields, UsedBounds DEF TypeOK
    <3>3. /\ prefs'.mode = prefs.mode /\ prefs'.themes = prefs.themes
          /\ prefs'.on = prefs.on
          /\ prefs'.delay = [prefs.delay EXCEPT ![k] = Used(k, store.delay[k])]
      BY <2>2, <2>4, <3>1, <3>2, DelayWritten
    <3>4. \A d \in Delays :
            prefs'.delay[d] = IF d = k THEN Used(d, store.delay[d]) ELSE prefs.delay[d]
      BY <2>2, <3>3, SettingsFields
    <3>. QED
      BY <2>1, <2>2, <3>1, <3>3, <3>4 DEF Copies
  <2>5. CASE k = "mode"
    <3>1. prefs' = [prefs EXCEPT !.mode = store.mode] /\ k \notin Switches \cup Delays
      BY <2>1, <2>5, KeysApart DEF Copied
    <3>2. store.mode \in {"blank", "random", "single"}
      BY SettingsFields DEF TypeOK
    <3>3. /\ prefs'.mode = store.mode /\ prefs'.themes = prefs.themes
          /\ prefs'.on = prefs.on /\ prefs'.delay = prefs.delay
      BY <2>2, <3>1, <3>2, ModeWritten
    <3>. QED
      BY <2>1, <2>2, <2>5, <3>1, <3>3 DEF Copies
  <2>6. CASE k = "themes"
    <3>1. prefs' = [prefs EXCEPT !.themes = store.themes] /\ k \notin Switches \cup Delays
      BY <2>1, <2>6, KeysApart DEF Copied
    <3>2. store.themes \in Lists
      BY SettingsFields DEF TypeOK
    <3>3. /\ prefs'.themes = store.themes /\ prefs'.mode = prefs.mode
          /\ prefs'.on = prefs.on /\ prefs'.delay = prefs.delay
      BY <2>2, <3>1, <3>2, ThemesWritten
    <3>. QED
      BY <2>1, <2>2, <2>6, <3>1, <3>3 DEF Copies
  <2>. QED
    BY <2>2, <2>3, <2>4, <2>5, <2>6 DEF Keys
<1>16. CASE OtherSets
  BY <1>16, <1>c DEF OtherSets
<1>17. CASE OtherSetsMode
  BY <1>17, <1>c DEF OtherSetsMode
<1>18. CASE OtherSetsThemes
  BY <1>18, <1>c DEF OtherSetsThemes
<1>19. CASE UNCHANGED vars
  BY <1>19, <1>a DEF vars
<1>. QED
  BY <1>1, <1>2, <1>3, <1>4, <1>5, <1>6, <1>7, <1>8, <1>9, <1>10, <1>11, <1>12, <1>13, <1>14,
     <1>15, <1>16, <1>17, <1>18, <1>19 DEF Next, Handler

-----------------------------------------------------------------------------
\* A write that leaves the switches and the delays alone, or announces them to
\* the dialog, leaves its widgets right.
LEMMA ShowsByOthers ==
  ASSUME Shows, UNCHANGED <<running, active, spin, sensitive, writable>>,
         running => dialog_inbox' = dialog_inbox \cup Changed(store')
  PROVE  Shows'
<1>. SUFFICES ASSUME running PROVE WidgetsFollow'
  BY DEF Shows
<1>1. \A s \in Switches \ dialog_inbox' : active'[s] = store'.on[s]
  BY ChangedIs DEF Shows, WidgetsFollow
<1>2. \A d \in Delays \ dialog_inbox' : spin'[d] = Shown(d, store'.delay[d])
  <2>1. \A d \in Delays \ dialog_inbox' : spin'[d] = Shown(d, store.delay[d])
    BY DEF Shows, WidgetsFollow
  <2>2. \A d \in Delays \ dialog_inbox' : store'.delay[d] = store.delay[d]
    BY ChangedIs
  <2>. QED
    BY <2>1, <2>2
<1>3. sensitive' = Sensitive(active)'
  BY DEF Shows, WidgetsFollow, Sensitive
<1>. QED
  BY <1>1, <1>2, <1>3 DEF WidgetsFollow

LEMMA ShowsUntouched ==
  ASSUME Shows, UNCHANGED <<running, active, spin, sensitive, writable>>,
         store'.on = store.on, store'.delay = store.delay,
         dialog_inbox' \cap (Switches \cup Delays) = dialog_inbox \cap (Switches \cup Delays)
  PROVE  Shows'
<1>1. Switches \ dialog_inbox' = Switches \ dialog_inbox
  OBVIOUS
<1>2. Delays \ dialog_inbox' = Delays \ dialog_inbox
  OBVIOUS
<1>. QED
  BY <1>1, <1>2 DEF Shows, WidgetsFollow, Sensitive

LEMMA ShowsStep == TypeOK /\ Staged /\ Shows /\ [Next]_vars => Shows'
<1>. SUFFICES ASSUME TypeOK, Staged, Shows, [Next]_vars PROVE Shows'
  OBVIOUS
<1>. USE DEF otherVars, daemonVars, widgetVars, treeVars, dialogVars, history
<1>0. store \in Settings
  BY DEF TypeOK
<1>a. ASSUME UNCHANGED <<store, running, dialog_inbox, active, spin, sensitive, writable>>
      PROVE  Shows'
  BY <1>a, ShowsUntouched
<1>1. CASE tree_selection_changed_cb
  BY <1>1, <1>a DEF tree_selection_changed_cb
<1>2. CASE config_set_mode
  <2>1. Begun /\ selection \in Rows
    BY <1>2, Places, HandlerIs DEF config_set_mode, Staged, Handler
  <2>2. ModeOf(selection) \in {"blank", "random", "single"}
    BY <2>1, RowTypes
  <2>3. store' = [store EXCEPT !.mode = ModeOf(selection)]
    BY <1>2, <2>1, Places DEF config_set_mode, Write
  <2>4. store'.on = store.on /\ store'.delay = store.delay
    BY <1>0, <2>2, <2>3, ModeWritten
  <2>. QED
    BY <1>2, <2>4, ShowsUntouched DEF config_set_mode, Write
<1>3. CASE SetThemes
  <2>1. HalfDone /\ selection \in Rows
    BY <1>3, Places, HandlerIs DEF SetThemes, Staged, Handler
  <2>2. store' = [store EXCEPT !.themes = ListOf(selection)] /\ ListOf(selection) \in Lists
    BY <1>3, <2>1, SetThemesIs, RowTypes
  <2>3. store'.on = store.on /\ store'.delay = store.delay
    BY <1>0, <2>2, ThemesWritten
  <2>. QED
    BY <1>3, <2>3, ShowsUntouched DEF SetThemes, Write
<1>4. CASE SelectRow
  BY <1>4, <1>a DEF SelectRow, Select
<1>5. CASE fullscreen_preview_step
  BY <1>5, <1>a DEF fullscreen_preview_step, Select
<1>6. CASE fullscreen_preview_start_cb
  BY <1>6, <1>a DEF fullscreen_preview_start_cb, fullscreen_preview
<1>7. CASE fullscreen_preview_cancelled_cb
  BY <1>7, <1>a DEF fullscreen_preview_cancelled_cb, fullscreen_preview
<1>8. CASE gs_job_died
  BY <1>8, <1>a DEF gs_job_died
<1>9. CASE SwitchToggled
  <2>1. PICK x \in Switches :
          LET on == [active EXCEPT ![x] = ~@]
          IN  active' = on /\ sensitive' = Sensitive(on) /\ StoreSwitch(x, on[x])
    BY <1>9 DEF SwitchToggled
  <2>. DEFINE on == [active EXCEPT ![x] = ~@]
  <2>2. on \in [Switches -> BOOLEAN] /\ on[x] \in BOOLEAN /\ \A s \in Switches \ {x} : on[s] = active[s]
    BY DEF TypeOK
  <2>3. active' = on /\ sensitive' = Sensitive(on) /\ store' = [store EXCEPT !.on[x] = on[x]]
    BY <2>1 DEF StoreSwitch, Write
  <2>. HIDE DEF on
  <2>4. store'.on = [store.on EXCEPT ![x] = on[x]] /\ store'.delay = store.delay
    BY <1>0, <2>2, <2>3, SwitchWritten
  <2>5. running /\ UNCHANGED <<running, writable, spin, dialog_inbox>>
    BY <1>9, <2>1 DEF SwitchToggled, StoreSwitch, Write, Presented
  <2>6. \A s \in Switches \ dialog_inbox' : active'[s] = store'.on[s]
    BY <1>0, <2>2, <2>3, <2>4, <2>5, SettingsFields DEF Shows, WidgetsFollow
  <2>7. sensitive' = Sensitive(active)'
    BY <2>3, <2>5 DEF Sensitive
  <2>. QED
    BY <2>4, <2>5, <2>6, <2>7 DEF Shows, WidgetsFollow
<1>10. CASE DelayChanged
  <2>1. PICK d \in sensitive, v \in 0..MaxDelay :
          /\ v = Shown(d, v)
          /\ spin' = [spin EXCEPT ![d] = v]
          /\ Write([store EXCEPT !.delay[d] = v])
    BY <1>10 DEF DelayChanged
  <2>2. d \in Delays /\ v \in 0..MaxDelay + 1
    BY Bounds DEF TypeOK
  <2>3. /\ store'.delay = [store.delay EXCEPT ![d] = v] /\ store'.on = store.on
        /\ UNCHANGED dialog_inbox
    BY <1>0, <2>1, <2>2, DelayWritten DEF Write
  <2>4. running /\ UNCHANGED <<running, writable, active, sensitive>>
    BY <1>10 DEF DelayChanged, Presented
  <2>5. \A x \in Delays \ dialog_inbox' : spin'[x] = Shown(x, store'.delay[x])
    <3>. TAKE x \in Delays \ dialog_inbox'
    <3>1. CASE x = d
      <4>1. spin'[x] = v /\ store'.delay[x] = v
        BY <1>0, <2>1, <2>2, <2>3, <3>1, SettingsFields DEF TypeOK
      <4>. QED
        BY <2>1, <3>1, <4>1
    <3>2. CASE x # d
      <4>1. spin'[x] = spin[x] /\ store'.delay[x] = store.delay[x]
        BY <1>0, <2>1, <2>2, <2>3, <3>2, SettingsFields DEF TypeOK
      <4>. QED
        BY <2>3, <2>4, <4>1 DEF Shows, WidgetsFollow
    <3>. QED
      BY <3>1, <3>2
  <2>6. sensitive' = Sensitive(active)'
    BY <2>4 DEF Sensitive, Shows, WidgetsFollow
  <2>. QED
    BY <2>3, <2>4, <2>5, <2>6 DEF Shows, WidgetsFollow
<1>11. CASE configure_capplet
  <2>. DEFINE l == IF store.mode = "random" THEN ThemeList ELSE store.themes
  <2>1. l \in Lists
    BY <1>0, SettingsFields DEF Lists
  <2>2. store' = [store EXCEPT !.themes = l]
    BY <1>11 DEF configure_capplet, Write
  <2>. HIDE DEF l
  <2>3. store'.on = store.on /\ store'.delay = store.delay
    BY <1>0, <2>1, <2>2, ThemesWritten
  <2>4. /\ active' = store'.on
        /\ spin' = [d \in Delays |-> Shown(d, store'.delay[d])]
        /\ sensitive' = Sensitive(active') /\ writable' = writable
    BY <1>11, <2>3 DEF configure_capplet, ShowSettings
  <2>. QED
    BY <2>4 DEF Shows, WidgetsFollow, Sensitive
<1>12. CASE setup_treeview_idle
  BY <1>12, <1>a DEF setup_treeview_idle
<1>13. CASE response_cb
  BY <1>13 DEF response_cb, Shows
<1>14. CASE key_changed_cb
  <2>1. PICK k \in dialog_inbox :
          /\ dialog_inbox' = dialog_inbox \ {k}
          /\ \/ k \in Switches /\ ui_set_switch(k)
             \/ k \in Delays /\ ui_set_delay(k)
             \/ k = "themes" /\ ui_set_theme
             \/ k = "mode" /\ UNCHANGED <<store, active, spin, sensitive>>
    BY <1>14 DEF key_changed_cb
  <2>2. UNCHANGED <<running, writable>>
    BY <1>14 DEF key_changed_cb
  <2>3. CASE k \in Switches /\ ui_set_switch(k)
    <3>1. /\ active' = [active EXCEPT ![k] = store.on[k]] /\ UNCHANGED <<store, spin>>
          /\ sensitive' = Sensitive(active') /\ k \notin Delays
      BY <2>3, KeysApart DEF ui_set_switch
    <3>2. running => \A s \in Switches \ dialog_inbox' : active'[s] = store'.on[s]
      BY <2>1, <3>1 DEF TypeOK, Shows, WidgetsFollow
    <3>. QED
      BY <2>1, <2>2, <3>1, <3>2 DEF Shows, WidgetsFollow, Sensitive
  <2>4. CASE k \in Delays /\ ui_set_delay(k)
    <3>. DEFINE v == Shown(k, store.delay[k])
                w == IF v # spin[k] THEN v ELSE store.delay[k]
    <3>1. store.delay[k] \in 0..MaxDelay + 1
      BY <1>0, <2>4, SettingsFields
    <3>2. v \in 0..MaxDelay /\ 0..MaxDelay \subseteq 0..MaxDelay + 1 /\ Shown(k, v) = v
      BY <3>1, ShownBounds, Bounds
    <3>3. w \in 0..MaxDelay + 1 /\ Shown(k, w) = v
      BY <3>1, <3>2
    <3>4. /\ store' = [store EXCEPT !.delay[k] = w] /\ spin' = [spin EXCEPT ![k] = v]
          /\ UNCHANGED <<active, sensitive>> /\ k \notin Switches
      BY <2>4, KeysApart DEF ui_set_delay
    <3>. HIDE DEF v, w
    <3>5. store'.delay = [store.delay EXCEPT ![k] = w] /\ store'.on = store.on
      BY <1>0, <2>4, <3>3, <3>4, DelayWritten
    <3>6. running => \A d \in Delays \ dialog_inbox' : spin'[d] = Shown(d, store'.delay[d])
      <4>. SUFFICES ASSUME running, NEW d \in Delays \ dialog_inbox'
                    PROVE  spin'[d] = Shown(d, store'.delay[d])
        OBVIOUS
      <4>1. CASE d = k
        <5>1. spin'[d] = v /\ store'.delay[d] = w
          BY <1>0, <2>4, <3>4, <3>5, <4>1, SettingsFields DEF TypeOK
        <5>. QED
          BY <3>3, <4>1, <5>1
      <4>2. CASE d # k
        <5>1. spin'[d] = spin[d] /\ store'.delay[d] = store.delay[d] /\ d \notin dialog_inbox
          BY <1>0, <2>1, <2>4, <3>4, <3>5, <4>2, SettingsFields DEF TypeOK
        <5>. QED
          BY <5>1 DEF Shows, WidgetsFollow
      <4>. QED
        BY <4>1, <4>2
    <3>7. running => \A s \in Switches \ dialog_inbox' : active'[s] = store'.on[s]
      BY <2>1, <3>4, <3>5 DEF Shows, WidgetsFollow
    <3>. QED
      BY <2>2, <3>4, <3>6, <3>7 DEF Shows, WidgetsFollow, Sensitive
  <2>5. CASE k \in {"themes", "mode"} /\ UNCHANGED <<store, active, spin, sensitive>>
    <3>1. dialog_inbox' \cap (Switches \cup Delays) = dialog_inbox \cap (Switches \cup Delays)
      BY <2>1, <2>5, KeysApart
    <3>. QED
      BY <2>2, <2>5, <3>1, ShowsUntouched
  <2>. QED
    BY <2>1, <2>3, <2>4, <2>5 DEF ui_set_theme
<1>15. CASE PrefsChanged
  BY <1>15, <1>a DEF PrefsChanged
<1>b. ASSUME NEW new, OtherWrites(new), UNCHANGED <<running, writable, widgetVars>> PROVE Shows'
  BY <1>b, ShowsByOthers DEF OtherWrites
<1>16. CASE OtherSets
  BY <1>16, <1>b DEF OtherSets
<1>17. CASE OtherSetsMode
  BY <1>17, <1>b DEF OtherSetsMode
<1>18. CASE OtherSetsThemes
  BY <1>18, <1>b DEF OtherSetsThemes
<1>19. CASE UNCHANGED vars
  BY <1>19, <1>a DEF vars
<1>. QED
  BY <1>1, <1>2, <1>3, <1>4, <1>5, <1>6, <1>7, <1>8, <1>9, <1>10, <1>11, <1>12, <1>13, <1>14,
     <1>15, <1>16, <1>17, <1>18, <1>19 DEF Next, Handler

-----------------------------------------------------------------------------
(***************************************************************************)
(* The writes.  As long as the two writes of one program do not meet those *)
(* of another, the store is half-way to a row while one is under way and   *)
(* stands for a row otherwise; and the dialog has selected it or is yet to *)
(* hear of the list.                                                       *)
(***************************************************************************)
StoreIs(row) == store.mode = ModeOf(row) /\ store.themes = ListOf(row)

\* Once two programs are at it at the same time, `mixed' is set sooner or later.
Crossed == mixed \/ (other_list # Null /\ todo # <<>>)

Selected == ListOf(selection) = store.themes \/ selection = config_get_theme(store)

Serial ==
  /\ other_list # Null => store.mode = ModeOf(other_list)
  /\ other_list = Null /\ ~HalfDone => \E row \in Rows : StoreIs(row)
  /\ HalfDone => store.mode = ModeOf(selection)
  /\ model_set /\ todo = <<>> /\ "themes" \notin dialog_inbox => Selected

InTurn == ~Crossed => Serial

\* The user's choice, until another program interferes.
Kept ==
  chosen # Null =>
    /\ model_set /\ other_list = Null /\ selection = chosen
    /\ "themes" \notin dialog_inbox
    /\ todo = <<>> => StoreIs(chosen)
    /\ HalfDone => store.mode = ModeOf(chosen)

LEMMA StagesApart ==
  ASSUME NEW t, NEW r
  PROVE  /\ t = config_set_theme(r) => t # <<>> /\ t # <<<<"set_themes", ListOf(r)>>>>
         /\ t = <<<<"changed", r>>>> => t # <<>> /\ t # <<<<"set_themes", ListOf(r)>>>>
<1>1. Len(config_set_theme(r)) = 2
  BY DEF config_set_theme
<1>2. Len(<<<<"set_themes", ListOf(r)>>>>) = 1 /\ Len(<<>>) = 0
  OBVIOUS
<1>3. <<<<"changed", r>>>>[1][1] = "changed" /\ <<<<"set_themes", ListOf(r)>>>>[1][1] = "set_themes"
  OBVIOUS
<1>4. <<<<"changed", r>>>> # <<>>
  OBVIOUS
<1>. QED
  BY <1>1, <1>2, <1>3, <1>4

LEMMA NextStages ==
  /\ Begun' => todo' # <<>> /\ ~HalfDone'
  /\ Told' => todo' # <<>> /\ ~HalfDone'
  /\ HalfDone' => todo' # <<>>
<1>1. Begun' => todo' # <<>> /\ ~HalfDone'
  BY StagesApart DEF Begun, HalfDone
<1>2. Told' => todo' # <<>> /\ ~HalfDone'
  BY StagesApart DEF Told, HalfDone
<1>3. HalfDone' => todo' # <<>>
  BY DEF HalfDone
<1>. QED
  BY <1>1, <1>2, <1>3

LEMMA RowSelected ==
  ASSUME NEW row \in Rows, StoreIs(row)
  PROVE  /\ config_get_theme(store) = row
         /\ selection \in Rows /\ Selected => selection = row
<1>1. config_get_theme(store) = row
  BY RowOfRow DEF StoreIs
<1>2. ASSUME selection \in Rows, ListOf(selection) = store.themes PROVE selection = row
  BY <1>2, ListTellsRow DEF StoreIs
<1>. QED
  BY <1>1, <1>2 DEF Selected

\* Steps that have no part in this.
LEMMA InTurnUntouched ==
  ASSUME InTurn, Kept,
         store'.mode = store.mode, store'.themes = store.themes,
         UNCHANGED <<mixed, other_list, todo, selection, model_set, chosen>>,
         ("themes" \in dialog_inbox') = ("themes" \in dialog_inbox)
  PROVE  InTurn' /\ Kept'
<1>1. \A row : StoreIs(row)' <=> StoreIs(row)
  BY DEF StoreIs
<1>2. config_get_theme(store') = config_get_theme(store)
  BY DEF config_get_theme
<1>3. (HalfDone' <=> HalfDone) /\ (Crossed' <=> Crossed) /\ (Selected' <=> Selected)
  BY <1>2 DEF HalfDone, Crossed, Selected
<1>4. (\E row \in Rows : StoreIs(row))' <=> (\E row \in Rows : StoreIs(row))
  BY <1>1
<1>5. Serial => Serial'
  BY <1>3, <1>4 DEF Serial
<1>6. Kept'
  BY <1>1, <1>3 DEF Kept
<1>. QED
  BY <1>3, <1>5, <1>6 DEF InTurn

\* The cursor moves, or not, while nothing is under way.
LEMMA InTurnByCursor ==
  ASSUME TypeOK, Staged, InTurn, Kept, todo = <<>>, model_set',
         setup_treeview_selection(store, <<>>),
         UNCHANGED <<store, mixed, other_list, chosen>>,
         chosen = Null \/ (UNCHANGED <<dialog_inbox, model_set>>)
  PROVE  InTurn' /\ Kept'
<1>0. config_get_theme(store) \in Rows
  BY SettingsRow DEF TypeOK
<1>1. /\ selection' = config_get_theme(store)
      /\ \/ selection' # selection /\ Told'
         \/ selection' = selection /\ todo' = <<>>
  BY <1>0, CursorMoves
<1>2. ~HalfDone'
  BY <1>1, NextStages
<1>3. ~HalfDone
  BY NotTold
<1>4. ASSUME ~Crossed' PROVE Serial'
  <2>1. ~Crossed
    BY <1>4 DEF Crossed
  <2>2. Serial
    BY <2>1 DEF InTurn
  <2>3. Selected'
    BY <1>1 DEF Selected
  <2>4. other_list = Null => \E row \in Rows : StoreIs(row)'
    BY <1>3, <2>2 DEF Serial, StoreIs
  <2>. QED
    BY <1>2, <2>2, <2>3, <2>4 DEF Serial
<1>5. Kept'
  <2>. SUFFICES ASSUME chosen # Null PROVE Kept'
    BY DEF Kept
  <2>1. /\ model_set /\ other_list = Null /\ selection = chosen /\ StoreIs(chosen)
        /\ "themes" \notin dialog_inbox
    BY DEF Kept
  <2>2. chosen \in Rows
    BY DEF TypeOK
  <2>3. selection' = chosen
    BY <1>1, <2>1, <2>2, RowSelected
  <2>4. StoreIs(chosen)'
    BY <2>1 DEF StoreIs
  <2>. QED
    BY <1>2, <2>1, <2>3, <2>4 DEF Kept
<1>. QED
  BY <1>4, <1>5 DEF InTurn

LEMMA InTurnStep ==
  TypeOK /\ Staged /\ InTurn /\ Kept /\ [Next]_vars => (InTurn /\ Kept)'
<1>. SUFFICES ASSUME TypeOK, Staged, InTurn, Kept, [Next]_vars PROVE InTurn' /\ Kept'
  OBVIOUS
<1>. USE DEF otherVars, daemonVars, widgetVars, treeVars, dialogVars, history
<1>0. /\ store \in Settings /\ config_get_theme(store) \in Rows
      /\ mixed \in BOOLEAN /\ chosen \in Rows \cup {Null} /\ other_list \in Rows \cup {Null}
  BY SettingsRow DEF TypeOK
<1>a. ASSUME UNCHANGED <<store, mixed, other_list, todo, selection, model_set, chosen,
                         dialog_inbox>>
      PROVE  InTurn' /\ Kept'
  BY <1>a, InTurnUntouched
<1>1. CASE tree_selection_changed_cb
  <2>1. Told /\ Begun'
    BY <1>1, Places, HandlerIs DEF tree_selection_changed_cb, Staged, Handler
  <2>2. UNCHANGED <<store, mixed, other_list, selection, model_set, chosen, dialog_inbox>>
    BY <1>1 DEF tree_selection_changed_cb
  <2>3. ~HalfDone' /\ todo' # <<>> /\ ~HalfDone /\ todo # <<>>
    BY <2>1, NextStages, StagesApart DEF Told, HalfDone
  <2>4. ASSUME ~Crossed' PROVE Serial'
    <3>1. ~Crossed /\ other_list = Null
      BY <2>2, <2>3, <2>4 DEF Crossed
    <3>. QED
      BY <2>2, <2>3, <3>1 DEF InTurn, Serial, StoreIs
  <2>5. Kept'
    BY <2>2, <2>3 DEF Kept
  <2>. QED
    BY <2>4, <2>5 DEF InTurn
<1>2. CASE config_set_mode
  <2>1. Begun /\ HalfDone' /\ selection \in Rows
    BY <1>2, Places, HandlerIs DEF config_set_mode, Staged, Handler
  <2>2. /\ store' = [store EXCEPT !.mode = ModeOf(selection)]
        /\ ModeOf(selection) \in {"blank", "random", "single"}
    BY <1>2, <2>1, Places, RowTypes DEF config_set_mode, Write
  <2>3. store'.mode = ModeOf(selection) /\ store'.themes = store.themes
    BY <1>0, <2>2, ModeWritten
  <2>4. /\ UNCHANGED <<other_list, selection, model_set, chosen, dialog_inbox>>
        /\ mixed' = (mixed \/ other_list # Null)
    BY <1>2 DEF config_set_mode, Write
  <2>5. todo' # <<>>
    BY <2>1, NextStages
  <2>6. ASSUME ~Crossed' PROVE Serial'
    <3>1. other_list' = Null
      BY <2>4, <2>5, <2>6 DEF Crossed
    <3>. QED
      BY <2>1, <2>3, <2>4, <2>5, <3>1 DEF Serial
  <2>7. Kept'
    BY <2>3, <2>4, <2>5 DEF Kept
  <2>. QED
    BY <2>6, <2>7 DEF InTurn
<1>3. CASE SetThemes
  <2>1. HalfDone /\ selection \in Rows /\ todo # <<>>
    BY <1>3, Places, HandlerIs DEF SetThemes, Staged, Handler
  <2>2. /\ store' = [store EXCEPT !.themes = ListOf(selection)]
        /\ \/ selection' = config_get_theme(store') /\ selection' # selection /\ Told'
           \/ /\ selection' = selection /\ todo' = <<>>
              /\ store' = store \/ selection = config_get_theme(store')
    BY <1>3, <2>1, SetThemesIs
  <2>3. store'.mode = store.mode /\ store'.themes = ListOf(selection)
    BY <1>0, <2>1, <2>2, RowTypes, ThemesWritten
  <2>4. /\ UNCHANGED <<other_list, model_set, chosen, dialog_inbox>>
        /\ mixed' = (mixed \/ other_list # Null)
    BY <1>3 DEF SetThemes, Write
  <2>a. ASSUME store.mode = ModeOf(selection)
        PROVE  StoreIs(selection)' /\ selection' = selection /\ todo' = <<>>
    <3>1. config_get_theme(store') = selection
      BY <2>1, <2>3, <2>a, RowOfRow
    <3>2. selection' = selection /\ todo' = <<>>
      BY <2>2, <3>1
    <3>. QED
      BY <2>3, <2>a, <3>2 DEF StoreIs
  <2>5. ASSUME ~Crossed' PROVE Serial'
    <3>1. ~mixed /\ other_list = Null
      BY <1>0, <2>4, <2>5 DEF Crossed
    <3>2. store.mode = ModeOf(selection)
      BY <2>1, <3>1 DEF Crossed, InTurn, Serial
    <3>3. StoreIs(selection)' /\ selection' = selection /\ todo' = <<>>
      BY <2>a, <3>2
    <3>4. ~HalfDone'
      BY <3>3, NextStages
    <3>5. Selected'
      BY <3>3 DEF StoreIs, Selected
    <3>. QED
      BY <2>1, <2>4, <3>1, <3>3, <3>4, <3>5 DEF Serial
  <2>6. Kept'
    <3>. SUFFICES ASSUME chosen # Null PROVE Kept'
      BY <2>4 DEF Kept
    <3>1. /\ model_set /\ other_list = Null /\ selection = chosen
          /\ "themes" \notin dialog_inbox /\ store.mode = ModeOf(chosen)
      BY <2>1 DEF Kept
    <3>2. StoreIs(selection)' /\ selection' = selection /\ todo' = <<>>
      BY <2>a, <3>1
    <3>3. ~HalfDone'
      BY <3>2, NextStages
    <3>. QED
      BY <2>4, <3>1, <3>2, <3>3 DEF Kept, StoreIs
  <2>. QED
    BY <2>5, <2>6 DEF InTurn
<1>b. ASSUME NEW row \in Rows, Select(row), todo = <<>>, model_set PROVE InTurn' /\ Kept'
  <2>1. /\ selection' = row /\ Told'
        /\ UNCHANGED <<store, mixed, other_list, dialog_inbox, model_set>>
        /\ chosen' = IF other_list = Null /\ dialog_inbox = {} THEN row ELSE Null
    BY <1>b DEF Select, Told
  <2>2. todo' # <<>> /\ ~HalfDone' /\ ~HalfDone
    BY <1>b, <2>1, NextStages, NotTold
  <2>3. ASSUME ~Crossed' PROVE Serial'
    <3>1. other_list = Null /\ ~Crossed
      BY <2>1, <2>2, <2>3 DEF Crossed
    <3>. QED
      BY <2>1, <2>2, <3>1 DEF InTurn, Serial, StoreIs
  <2>4. Kept'
    BY <1>b, <2>1, <2>2 DEF Kept
  <2>. QED
    BY <2>3, <2>4 DEF InTurn
<1>4. CASE SelectRow
  BY <1>4, <1>b DEF SelectRow, Presented
<1>5. CASE fullscreen_preview_step
  <2>1. PICK row \in Neighbours(selection) : Select(row)
    BY <1>5 DEF fullscreen_preview_step
  <2>2. row \in Rows /\ todo = <<>>
    BY <1>5 DEF Neighbours, Rows, Range, fullscreen_preview_step
  <2>3. model_set
    <3>1. selection # Null
      <4>1. PICK i \in DOMAIN RowList : RowList[i] = selection
        BY DEF Neighbours
      <4>2. selection \in Range(RowList)
        BY <4>1 DEF Range
      <4>3. Null # Separator /\ Null \notin Rows
        BY RowNames DEF Null, Separator
      <4>. QED
        BY <4>2, <4>3 DEF Rows
    <3>. QED
      BY <3>1 DEF Staged
  <2>. QED
    BY <2>1, <2>2, <2>3, <1>b
<1>6. CASE fullscreen_preview_start_cb
  BY <1>6, <1>a DEF fullscreen_preview_start_cb, fullscreen_preview
<1>7. CASE fullscreen_preview_cancelled_cb
  BY <1>7, <1>a DEF fullscreen_preview_cancelled_cb, fullscreen_preview
<1>8. CASE gs_job_died
  BY <1>8, <1>a DEF gs_job_died
<1>9. CASE SwitchToggled
  <2>1. PICK x \in Switches : StoreSwitch(x, [active EXCEPT ![x] = ~@][x])
    BY <1>9 DEF SwitchToggled
  <2>2. [active EXCEPT ![x] = ~@][x] \in BOOLEAN
    BY DEF TypeOK
  <2>3. store'.mode = store.mode /\ store'.themes = store.themes
    BY <1>0, <2>1, <2>2, SwitchWritten DEF StoreSwitch, Write
  <2>. QED
    BY <1>9, <2>1, <2>3, InTurnUntouched DEF SwitchToggled, StoreSwitch, Write
<1>10. CASE DelayChanged
  <2>1. PICK d \in sensitive, v \in 0..MaxDelay : Write([store EXCEPT !.delay[d] = v])
    BY <1>10 DEF DelayChanged
  <2>2. d \in Delays /\ v \in 0..MaxDelay + 1
    BY Bounds DEF TypeOK
  <2>3. store'.mode = store.mode /\ store'.themes = store.themes
    BY <1>0, <2>1, <2>2, DelayWritten DEF Write
  <2>. QED
    BY <1>10, <2>1, <2>3, InTurnUntouched DEF DelayChanged, Write
<1>11. CASE configure_capplet
  <2>. DEFINE l == IF store.mode = "random" THEN ThemeList ELSE store.themes
  <2>1. l \in Lists
    BY <1>0, SettingsFields DEF Lists
  <2>2. store' = [store EXCEPT !.themes = l]
    BY <1>11 DEF configure_capplet, Write
  <2>3. store'.mode = store.mode /\ store'.themes = l
    <3>. HIDE DEF l
    <3>. QED
      BY <1>0, <2>1, <2>2, ThemesWritten
  <2>4. /\ UNCHANGED <<mixed, other_list, todo, selection, model_set, chosen>>
        /\ ~model_set /\ todo = <<>>
    BY <1>11 DEF configure_capplet, Write, Staged
  <2>5. ~HalfDone /\ ~HalfDone'
    BY <2>4, NotTold, NextStages
  <2>6. \A row \in Rows : StoreIs(row) => StoreIs(row)'
    <3>. SUFFICES ASSUME NEW row \in Rows, StoreIs(row) PROVE StoreIs(row)'
      OBVIOUS
    <3>1. store.mode = "random" => row = Random
      BY DEF StoreIs, ModeOf
    <3>2. store.mode = "random" => store.themes = ThemeList
      BY <3>1, RowNames DEF StoreIs, ListOf
    <3>. QED
      BY <2>3, <3>2 DEF StoreIs
  <2>7. ASSUME ~Crossed' PROVE Serial'
    <3>1. ~Crossed
      BY <2>4, <2>7 DEF Crossed
    <3>. QED
      BY <2>3, <2>4, <2>5, <2>6, <3>1 DEF InTurn, Serial
  <2>8. Kept'
    BY <2>4 DEF Kept
  <2>. QED
    BY <2>7, <2>8 DEF InTurn
<1>12. CASE setup_treeview_idle
  <2>1. /\ ~model_set /\ model_set' /\ todo = <<>> /\ setup_treeview_selection(store, <<>>)
        /\ UNCHANGED <<store, mixed, other_list, chosen>>
    BY <1>12 DEF setup_treeview_idle
  <2>2. chosen = Null
    BY <2>1 DEF Kept
  <2>. QED
    BY <2>1, <2>2, InTurnByCursor
<1>13. CASE response_cb
  <2>1. /\ todo' = <<>> /\ todo = <<>> /\ ~model_set' /\ chosen' = Null
        /\ UNCHANGED <<store, mixed, other_list>>
    BY <1>13 DEF response_cb, Presented
  <2>2. ~HalfDone /\ ~HalfDone' /\ (Crossed' <=> Crossed)
    BY <2>1, NotTold, NextStages DEF Crossed
  <2>. QED
    BY <2>1, <2>2 DEF InTurn, Serial, Kept, StoreIs
<1>14. CASE key_changed_cb
  <2>1. PICK k \in dialog_inbox :
          /\ dialog_inbox' = dialog_inbox \ {k}
          /\ \/ k \in Switches /\ ui_set_switch(k)
             \/ k \in Delays /\ ui_set_delay(k)
             \/ k = "themes" /\ ui_set_theme
             \/ k = "mode" /\ UNCHANGED <<store, selection, todo>>
    BY <1>14 DEF key_changed_cb
  <2>2. UNCHANGED <<mixed, other_list, model_set, chosen>> /\ todo = <<>>
    BY <1>14 DEF key_changed_cb
  <2>3. CASE k = "themes" /\ ui_set_theme
    <3>1. chosen = Null
      BY <2>1, <2>3 DEF Kept
    <3>2. CASE model_set
      <4>1. setup_treeview_selection(store, <<>>) /\ store' = store
        BY <2>3, <3>2 DEF ui_set_theme
      <4>. QED
        BY <2>2, <3>1, <3>2, <4>1, InTurnByCursor
    <3>3. CASE ~model_set
      <4>1. UNCHANGED <<store, selection, todo>>
        BY <2>3, <3>3 DEF ui_set_theme
      <4>2. (HalfDone' <=> HalfDone) /\ (Crossed' <=> Crossed)
        BY <2>2, <4>1 DEF HalfDone, Crossed
      <4>. QED
        BY <2>2, <3>1, <3>3, <4>1, <4>2 DEF InTurn, Serial, Kept, StoreIs
    <3>. QED
      BY <3>2, <3>3
  <2>4. CASE k # "themes"
    <3>1. store'.mode = store.mode /\ store'.themes = store.themes /\ UNCHANGED <<selection, todo>>
      <4>1. CASE k \in Delays /\ ui_set_delay(k)
        <5>. DEFINE v == Shown(k, store.delay[k])
                    w == IF v # spin[k] THEN v ELSE store.delay[k]
        <5>1. store.delay[k] \in 0..MaxDelay + 1
          BY <1>0, <4>1, SettingsFields
        <5>2. v \in 0..MaxDelay /\ 0..MaxDelay \subseteq 0..MaxDelay + 1
          BY <5>1, ShownBounds, Bounds
        <5>3. w \in 0..MaxDelay + 1
          BY <5>1, <5>2
        <5>4. store' = [store EXCEPT !.delay[k] = w]
          BY <4>1 DEF ui_set_delay
        <5>. HIDE DEF w
        <5>5. store'.mode = store.mode /\ store'.themes = store.themes
          BY <1>0, <4>1, <5>3, <5>4, DelayWritten
        <5>. QED
          BY <4>1, <5>5 DEF ui_set_delay
      <4>. QED
        BY <2>1, <2>4, <4>1 DEF ui_set_switch
    <3>2. ("themes" \in dialog_inbox') = ("themes" \in dialog_inbox)
      BY <2>1, <2>4
    <3>. QED
      BY <2>2, <3>1, <3>2, InTurnUntouched
  <2>. QED
    BY <2>1, <2>3, <2>4, KeysApart
<1>15. CASE PrefsChanged
  BY <1>15, <1>a DEF PrefsChanged
<1>16. CASE OtherSets
  <2>1. PICK new : /\ OtherWrites(new) /\ new.mode = store.mode /\ new.themes = store.themes
    <3>1. CASE \E x \in Switches : OtherWrites([store EXCEPT !.on[x] = ~@])
      <4>1. PICK x \in Switches : OtherWrites([store EXCEPT !.on[x] = ~@])
        BY <3>1
      <4>2. (~store.on[x]) \in BOOLEAN
        OBVIOUS
      <4>3. [store EXCEPT !.on[x] = ~@].mode = store.mode /\ [store EXCEPT !.on[x] = ~@].themes = store.themes
        BY <1>0, <4>2, SwitchWritten
      <4>. QED
        BY <4>1, <4>3
    <3>2. CASE \E d \in Delays, v \in 0..MaxDelay + 1 : OtherWrites([store EXCEPT !.delay[d] = v])
      <4>1. PICK d \in Delays, v \in 0..MaxDelay + 1 : OtherWrites([store EXCEPT !.delay[d] = v])
        BY <3>2
      <4>2. /\ [store EXCEPT !.delay[d] = v].mode = store.mode
            /\ [store EXCEPT !.delay[d] = v].themes = store.themes
        BY <1>0, DelayWritten
      <4>. QED
        BY <4>1, <4>2
    <3>. QED
      BY <1>16, <3>1, <3>2 DEF OtherSets
  <2>2. store'.mode = store.mode /\ store'.themes = store.themes
    BY <2>1 DEF OtherWrites
  <2>3. "themes" \notin Changed(new)
    BY <2>1, KeysApart DEF Changed
  <2>4. ("themes" \in dialog_inbox') = ("themes" \in dialog_inbox)
    BY <2>1, <2>3 DEF OtherWrites
  <2>. QED
    BY <1>16, <2>2, <2>4, InTurnUntouched DEF OtherSets
<1>17. CASE OtherSetsMode
  <2>1. PICK row \in Rows : OtherWrites([store EXCEPT !.mode = ModeOf(row)]) /\ other_list' = row
    BY <1>17 DEF OtherSetsMode
  <2>2. store' = [store EXCEPT !.mode = ModeOf(row)]
    BY <2>1 DEF OtherWrites
  <2>3. store'.mode = ModeOf(row) /\ store'.themes = store.themes
    BY <1>0, <2>2, RowTypes, ModeWritten
  <2>4. /\ UNCHANGED <<todo, selection, model_set, running>> /\ chosen' = Null /\ other_list = Null
        /\ mixed' = (mixed \/ todo # <<>>)
    BY <1>17 DEF OtherSetsMode
  <2>5. row # Null
    BY RowNames
  <2>6. ASSUME ~Crossed' PROVE Serial'
    <3>1. todo = <<>> /\ ~mixed /\ ~Crossed
      BY <2>4, <2>6 DEF Crossed
    <3>2. ~HalfDone /\ ~HalfDone'
      BY <2>4, <3>1, NotTold, NextStages
    <3>3. PICK old \in Rows : StoreIs(old)
      BY <2>4, <3>1, <3>2 DEF InTurn, Serial
    <3>4. ASSUME model_set', "themes" \notin dialog_inbox' PROVE Selected'
      <4>1. model_set /\ "themes" \notin dialog_inbox
        BY <2>1, <2>4, <3>4 DEF OtherWrites
      <4>2. Selected
        BY <3>1, <4>1 DEF InTurn, Serial
      <4>3. selection = old
        BY <3>3, <4>1, <4>2, RowSelected DEF Staged
      <4>. QED
        BY <2>3, <2>4, <3>3, <4>3 DEF Selected, StoreIs
    <3>. QED
      BY <2>1, <2>3, <2>5, <3>2, <3>4 DEF Serial
  <2>7. Kept'
    BY <2>4 DEF Kept
  <2>. QED
    BY <2>6, <2>7 DEF InTurn
<1>18. CASE OtherSetsThemes
  <2>. DEFINE new == [store EXCEPT !.themes = ListOf(other_list)]
  <2>1. other_list \in Rows /\ OtherWrites(new) /\ other_list # Null
    BY <1>0, <1>18 DEF OtherSetsThemes
  <2>2. new.mode = store.mode /\ new.themes = ListOf(other_list)
    BY <1>0, <2>1, RowTypes, ThemesWritten
  <2>. HIDE DEF new
  <2>3. /\ UNCHANGED <<todo, selection, model_set, chosen, running>> /\ other_list' = Null
        /\ mixed' = (mixed \/ todo # <<>>) /\ store' = new
    BY <1>18, <2>1 DEF OtherSetsThemes, OtherWrites
  <2>4. ASSUME ~Crossed' PROVE Serial'
    <3>1. todo = <<>> /\ ~mixed /\ ~Crossed
      BY <2>3, <2>4 DEF Crossed
    <3>2. ~HalfDone /\ ~HalfDone'
      BY <2>3, <3>1, NotTold, NextStages
    <3>3. store.mode = ModeOf(other_list)
      BY <2>1, <3>1 DEF InTurn, Serial
    <3>4. store'.mode = ModeOf(other_list) /\ store'.themes = ListOf(other_list)
      BY <2>2, <2>3, <3>3
    <3>5. \E row \in Rows : StoreIs(row)'
      BY <2>1, <3>4 DEF StoreIs
    <3>6. ASSUME model_set', "themes" \notin dialog_inbox' PROVE Selected'
      <4>1. model_set /\ running
        BY <2>3, <3>6 DEF Staged
      <4>2. "themes" \notin dialog_inbox /\ "themes" \notin Changed(new)
        BY <2>1, <3>6, <4>1 DEF OtherWrites
      <4>3. store.themes = ListOf(other_list)
        BY <2>2, <4>2 DEF Changed
      <4>4. Selected
        BY <3>1, <4>1, <4>2 DEF InTurn, Serial
      <4>5. selection = other_list
        BY <2>1, <3>3, <4>1, <4>3, <4>4, RowSelected DEF Staged, StoreIs
      <4>. QED
        BY <2>3, <3>4, <4>5 DEF Selected
    <3>. QED
      BY <2>3, <3>2, <3>5, <3>6 DEF Serial
  <2>5. Kept'
    BY <2>1, <2>3 DEF Kept
  <2>. QED
    BY <2>4, <2>5 DEF InTurn
<1>19. CASE UNCHANGED vars
  BY <1>19, <1>a DEF vars
<1>. QED
  BY <1>1, <1>2, <1>3, <1>4, <1>5, <1>6, <1>7, <1>8, <1>9, <1>10, <1>11, <1>12, <1>13, <1>14,
     <1>15, <1>16, <1>17, <1>18, <1>19 DEF Next, Handler

-----------------------------------------------------------------------------
LEMMA AllInit ==
  Init => TypeOK /\ Staged /\ Displayed /\ Copies /\ Shows /\ InTurn /\ Kept
<1>. SUFFICES ASSUME Init
              PROVE  TypeOK /\ Staged /\ Displayed /\ Copies /\ Shows /\ InTurn /\ Kept
  OBVIOUS
<1>1. PICK row \in Rows : store = [mode |-> ModeOf(row), themes |-> ListOf(row),
                                   on |-> [s \in Switches |-> TRUE],
                                   delay |-> [d \in Delays |-> 1]]
  BY DEF Init
<1>2. store \in Settings
  <2>1. [d \in Delays |-> 1] \in [Delays -> 0..MaxDelay + 1]
    BY Bounds
  <2>2. [s \in Switches |-> TRUE] \in [Switches -> BOOLEAN]
    OBVIOUS
  <2>. QED
    BY <1>1, <2>1, <2>2, RowTypes, SettingsMade
<1>3. /\ others = 0 /\ other_list = Null /\ daemon_inbox = {} /\ ~running /\ dialog_inbox = {}
      /\ writable \in SUBSET Delays /\ sensitive = {} /\ ~model_set /\ selection = Null
      /\ active_theme = Null /\ ~configurable /\ preview = Null /\ ~fullscreen /\ todo = <<>>
      /\ chosen = Null /\ ~mixed /\ prefs = gs_prefs_load_from_settings
      /\ running \in BOOLEAN /\ model_set \in BOOLEAN /\ configurable \in BOOLEAN
      /\ fullscreen \in BOOLEAN /\ mixed \in BOOLEAN
      /\ active = [s \in Switches |-> FALSE] /\ spin = [d \in Delays |-> 0]
  BY DEF Init
<1>4. /\ prefs \in Settings
      /\ prefs.mode = store.mode /\ prefs.themes = store.themes /\ prefs.on = store.on
      /\ \A d \in Delays : prefs.delay[d] = Used(d, store.delay[d])
  BY <1>2, <1>3, Loaded
<1>5. spin \in [Delays -> 0..MaxDelay] /\ active \in [Switches -> BOOLEAN] /\ others \in 0..MaxOthers
  BY <1>3, Bounds, PreferencesAssumption
<1>6. Len(todo) <= 2
  BY <1>3
<1>7. TypeOK
  BY <1>2, <1>3, <1>4, <1>5, <1>6 DEF TypeOK
<1>8. ~HalfDone
  BY <1>3, NotTold
<1>9. StoreIs(row)
  BY <1>1 DEF StoreIs
<1>10. Staged /\ Displayed /\ Shows
  BY <1>3 DEF Staged, Displayed, Shows
<1>11. Copies
  BY <1>4 DEF Copies
<1>12. InTurn /\ Kept
  BY <1>3, <1>8, <1>9 DEF InTurn, Serial, Kept
<1>. QED
  BY <1>7, <1>10, <1>11, <1>12

LEMMA AllInvariant ==
  Spec => [](TypeOK /\ Staged /\ Displayed /\ Copies /\ Shows /\ InTurn /\ Kept)
<1>1. TypeOK /\ Staged /\ Displayed /\ Copies /\ Shows /\ InTurn /\ Kept /\ [Next]_vars
        => (TypeOK /\ Staged /\ Displayed /\ Copies /\ Shows /\ InTurn /\ Kept)'
  BY TypesKept, StagedStep, CopiesStep, ShowsStep, InTurnStep
<1>. QED
  BY <1>1, AllInit, PTL DEF Spec

\* The types of the store, its copies, the widgets and the histories.
THEOREM PreferencesTypes == Spec => []TypeOK
  BY AllInvariant, PTL

\* What the daemon's next saver may be, if its copy stands for a row.
LEMMA DaemonShows ==
  ASSUME NEW row \in Rows, NEW p, p.on["saver"], p.mode = ModeOf(row), p.themes = ListOf(row)
  PROVE  gs_prefs_get_theme(p) = CASE row = BlankOnly -> {}
                                   [] row = Random -> Themes
                                   [] OTHER -> {row}
<1>1. CASE row = BlankOnly
  <2>1. p.mode = "blank"
    BY <1>1 DEF ModeOf
  <2>2. gs_prefs_get_theme(p) = {}
    BY <2>1 DEF gs_prefs_get_theme
  <2>3. row # Random
    BY <1>1 DEF BlankOnly, Random
  <2>. QED
    BY <1>1, <2>2, <2>3
<1>2. CASE row = Random
  <2>1. p.mode = "random" /\ p.themes = ThemeList /\ row # BlankOnly
    BY <1>2, RowNames DEF ModeOf, ListOf
  <2>. QED
    BY <1>2, <2>1, ThemeLists DEF gs_prefs_get_theme, Themes
<1>3. CASE row \in Themes
  <2>1. p.mode = "single" /\ p.themes = <<row>> /\ row # BlankOnly /\ row # Random
    BY <1>3, RowNames DEF ModeOf, ListOf
  <2>2. <<row>> # <<>> /\ <<row>>[1] = row
    OBVIOUS
  <2>. QED
    BY <2>1, <2>2 DEF gs_prefs_get_theme
<1>. QED
  BY <1>1, <1>2, <1>3, RowsAre

\* Once the notifications are delivered and no two programs' writes of a theme
\* have met, the daemon, the dialog and the store agree.
THEOREM CopiesAgree == Spec => []SettingsAgree
<1>1. ASSUME TypeOK, Staged, Displayed, Copies, Shows, InTurn PROVE SettingsAgree
  <2>1. DaemonFollows
    BY <1>1, CopiesFollow
  <2>2. running => WidgetsFollow
    BY <1>1 DEF Shows
  <2>3. ASSUME model_set, todo = <<>>, other_list = Null, ~mixed, "themes" \notin dialog_inbox
        PROVE  SelectionFollows
    <3>1. ~HalfDone /\ ~Told /\ ~Crossed /\ selection \in Rows
      BY <1>1, <2>3, NotTold DEF Crossed, Staged
    <3>2. PICK row \in Rows : StoreIs(row)
      BY <1>1, <2>3, <3>1 DEF InTurn, Serial
    <3>3. selection = row /\ config_get_theme(store) = row
      BY <1>1, <2>3, <3>1, <3>2, RowSelected DEF InTurn, Serial
    <3>4. /\ preview # Null => selection \in {Random, preview}
          /\ configurable => active_theme = selection
      BY <1>1, <3>1 DEF Displayed
    <3>5. ASSUME daemon_inbox = {}, prefs.on["saver"]
          PROVE  gs_prefs_get_theme(prefs) = CASE selection = BlankOnly -> {}
                                               [] selection = Random -> Themes
                                               [] OTHER -> {selection}
      <4>1. prefs["mode"] = store["mode"] /\ prefs["themes"] = store["themes"]
        BY <1>1, <3>5 DEF Copies
      <4>2. prefs.mode = ModeOf(row) /\ prefs.themes = ListOf(row)
        BY <3>2, <4>1 DEF StoreIs
      <4>. QED
        BY <3>3, <3>5, <4>2, DaemonShows
    <3>. QED
      BY <3>3, <3>4, <3>5 DEF SelectionFollows
  <2>. QED
    BY <2>1, <2>2, <2>3 DEF SettingsAgree
<1>. QED
  BY <1>1, AllInvariant, PTL

\* The row the user selects is what is stored in the end, with the dialog's own
\* notification of its half-done write in between.
THEOREM ChoiceKept == Spec => []ChoiceSticks
<1>1. ASSUME TypeOK, Kept PROVE ChoiceSticks
  <2>. SUFFICES ASSUME chosen # Null, todo = <<>> PROVE config_get_theme(store) = chosen
    BY DEF ChoiceSticks
  <2>1. chosen \in Rows /\ StoreIs(chosen)
    BY <1>1 DEF TypeOK, Kept
  <2>. QED
    BY <2>1, RowSelected
<1>. QED
  BY <1>1, AllInvariant, PTL
=============================================================================
