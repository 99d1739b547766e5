---------------------------- MODULE Preferences ----------------------------
(***************************************************************************)
(* The settings between three processes: the preferences dialog            *)
(* (xfce4-screensaver-preferences.c), the daemon's copy of them            *)
(* (gs-prefs.c), and any other program that changes them, a second dialog  *)
(* for one.  They meet in xfconf's store.                                  *)
(*                                                                         *)
(* A write that changes a property notifies every process: the writer      *)
(* before the write returns, the others through their main loops, which    *)
(* then read the store.  A theme takes two properties, the mode and the    *)
(* list, and so two writes; the dialog's own notification of the second    *)
(* moves the selection, whose handler writes both again.                   *)
(***************************************************************************)
EXTENDS Integers, Sequences, FiniteSets, Functions

CONSTANTS
    ThemeList,      \* the installed themes, as get_all_theme_ids lists them
    Switches,       \* the settings that are on or off; "saver" is one
    Delays,         \* the settings in minutes
    MaxDelay,       \* the largest delay a spin button takes (1440)
    UsedDelay,      \* the largest delay the daemon uses (480)
    MaxOthers       \* the changes by other programs (a bound of the model)

Null == "null"
BlankOnly == "__blank-only"
Random == "__random"
Separator == "__separator"
Themes == Range(ThemeList)

\* The rows of the tree view; the separator cannot be selected.
RowList == <<BlankOnly, Random, Separator>> \o ThemeList
Rows == Range(RowList) \ {Separator}

ASSUME PreferencesAssumption ==
    /\ ThemeList \in Seq(STRING)
    /\ Len(ThemeList) > 1
    /\ Themes \cap {Null, BlankOnly, Random, Separator} = {}
    /\ "saver" \in Switches
    /\ Delays \subseteq {"idle", "lock", "cycle"}
    /\ Switches \cap ({"mode", "themes"} \cup Delays) = {}
    /\ MaxDelay \in Nat /\ UsedDelay \in 1..MaxDelay
    /\ MaxOthers \in Nat

Keys == {"mode", "themes"} \cup Switches \cup Delays
Lists == {<<>>, ThemeList} \cup {<<t>> : t \in Themes}
Settings == [mode: {"blank", "random", "single"}, themes: Lists,
             on: [Switches -> BOOLEAN], delay: [Delays -> 0..MaxDelay + 1]]

VARIABLES
    store,          \* xfconf's values
    others,         \* the changes other programs have begun
    other_list,     \* the row whose list another program has yet to write
    prefs,          \* the daemon's GSPrefs
    daemon_inbox,   \* the keys whose change the daemon has yet to see
    running,        \* the preferences dialog runs
    dialog_inbox,   \* the keys whose change the dialog has yet to see
    writable,       \* the delays the administrator has not locked
    active,         \* gtk_switch_get_active of each switch
    spin,           \* gtk_spin_button_get_value of each delay
    sensitive,      \* the delays that can be edited
    model_set,      \* the tree view has its model
    selection,      \* the selected row, or Null
    active_theme,   \* the theme the configure button would configure
    configurable,   \* the configure button is sensitive
    preview,        \* the theme of the running preview job, or Null
    fullscreen,     \* the full-screen preview is shown instead of the dialog
    todo,           \* what remains of the dialog's handler
    chosen,         \* history: the row the user chose, until others interfere
    mixed           \* history: two programs' writes of a theme interleaved

otherVars == <<others, other_list>>
daemonVars == <<prefs, daemon_inbox>>
widgetVars == <<active, spin, sensitive>>
treeVars == <<model_set, selection, active_theme, configurable, preview,
              fullscreen>>
dialogVars == <<running, dialog_inbox, writable, widgetVars, treeVars, todo>>
history == <<chosen, mixed>>
vars == <<store, otherVars, daemonVars, dialogVars, history>>

Clamp(v, low, high) == IF v < low THEN low ELSE IF v > high THEN high ELSE v

-----------------------------------------------------------------------------
(***************************************************************************)
(* Reading the settings.                                                   *)
(***************************************************************************)

\* _gs_prefs_set_timeout and its like: what the daemon makes of a delay.
Used(d, v) ==
    IF d = "idle" /\ v < 1 THEN Clamp(10, 1, UsedDelay)
    ELSE Clamp(v, IF d = "lock" THEN 0 ELSE 1, UsedDelay)

\* The daemon's copy of the settings.
gs_prefs_load_from_settings ==
    [store EXCEPT !.delay = [d \in Delays |-> Used(d, store.delay[d])]]

\* The themes the daemon's next saver may be, none for a blank screen.
gs_prefs_get_theme(p) ==
    IF ~p.on["saver"] \/ p.mode = "blank" \/ p.themes = <<>> THEN {}
    ELSE IF p.mode = "random" THEN Range(p.themes) ELSE {p.themes[1]}

\* The spin button's adjustment holds a delay within its bounds.
Shown(d, v) == Clamp(v, IF d = "lock" THEN 0 ELSE 1, MaxDelay)

\* The switches a setting needs to be on to be edited: its own, or that of
\* the grid it is in.
Governs(s, x) ==
    \/ s = "saver" /\ x \in {"themes", "idle", "cycle", "idle_activation"}
    \/ s = "lock" /\ x \in {"lock", "lock_with_saver", "logout_enabled",
                            "keyboard"}
    \/ s = "idle_activation" /\ x = "idle"
    \/ s = "lock_with_saver" /\ x = "lock"

Editable(x, on) == \A s \in Switches : Governs(s, x) => on[s]

\* The row that stands for a mode and a list.
config_get_theme(s) ==
    IF s.mode = "random" THEN Random
    ELSE IF s.mode = "blank" \/ s.themes = <<>> THEN BlankOnly
    ELSE s.themes[1]

\* The mode and the list that store a row.
ModeOf(row) == IF row = BlankOnly THEN "blank"
               ELSE IF row = Random THEN "random" ELSE "single"
ListOf(row) == IF row = BlankOnly THEN <<>>
               ELSE IF row = Random THEN ThemeList ELSE <<row>>

\* SLIP: the list is written before the mode.
config_set_theme_list_first(row) ==
    << <<"set_themes", ListOf(row)>>, <<"set_mode", ModeOf(row)>> >>

\* The two writes that store a row: the mode first.
config_set_theme(row) ==
    << <<"set_mode", ModeOf(row)>>, <<"set_themes", ListOf(row)>> >>

-----------------------------------------------------------------------------
\* The store of a system in use, the daemon running on it, and no dialog.
Init ==
    /\ \E row \in Rows :
          store = [mode |-> ModeOf(row), themes |-> ListOf(row),
                   on |-> [s \in Switches |-> TRUE],
                   delay |-> [d \in Delays |-> 1]]
    /\ others = 0
    /\ other_list = Null
    /\ prefs = gs_prefs_load_from_settings
    /\ daemon_inbox = {}
    /\ running = FALSE
    /\ dialog_inbox = {}
    /\ writable \in SUBSET Delays
    /\ active = [s \in Switches |-> FALSE]
    /\ spin = [d \in Delays |-> 0]
    /\ sensitive = {}
    /\ model_set = FALSE
    /\ selection = Null
    /\ active_theme = Null
    /\ configurable = FALSE
    /\ preview = Null
    /\ fullscreen = FALSE
    /\ todo = <<>>
    /\ chosen = Null
    /\ mixed = FALSE

\* xfconf's write of the properties `keys': only changes are announced.
Changed(new) ==
    {k \in {"mode", "themes"} : new[k] # store[k]}
        \cup {s \in Switches : new.on[s] # store.on[s]}
        \cup {d \in Delays : new.delay[d] # store.delay[d]}

\* The dialog writes.
Write(new) ==
    /\ store' = new
    /\ daemon_inbox' = daemon_inbox \cup Changed(new)
    /\ UNCHANGED <<prefs, otherVars, dialog_inbox>>

\* Another program writes.
OtherWrites(new) ==
    /\ store' = new
    /\ daemon_inbox' = daemon_inbox \cup Changed(new)
    /\ dialog_inbox' =
          IF running THEN dialog_inbox \cup Changed(new) ELSE dialog_inbox
    /\ UNCHANGED prefs

-----------------------------------------------------------------------------
(***************************************************************************)
(* The dialog's theme list.                                                *)
(***************************************************************************)

\* The cursor goes to the row of the current settings; only a move of the
\* selection is a change, which is handled before the call returns.
setup_treeview_selection(s, rest) ==
    LET row == config_get_theme(s)
    IN  \/ /\ row \in Rows \ {selection}
           /\ selection' = row
           /\ todo' = <<<<"changed", row>>>> \o rest
        \/ /\ row \notin Rows \ {selection}
           /\ todo' = rest
           /\ UNCHANGED selection

\* What may run when a theme's command has been spawned.
Spawned(theme) == {theme, Null}

\* The preview is stopped, and started with the theme of the row.
preview_set_theme(row) ==
    \/ /\ row = BlankOnly
       /\ preview' = Null
    \/ /\ row = Random
       /\ \E theme \in Themes : preview' \in Spawned(theme)
    \/ /\ row \in Themes
       /\ preview' \in Spawned(row)

\* What the configure button configures.
ConfigureButton(row) ==
    /\ active_theme' = IF row = Random THEN Null
                       ELSE IF row = BlankOnly THEN "xfce-blank" ELSE row
    /\ configurable' = IF row \in Themes THEN TRUE
                       ELSE configurable /\ active_theme = Null

\* The handler of the selection's change.
tree_selection_changed_cb ==
    /\ todo # <<>>
    /\ Head(todo)[1] = "changed"
    /\ LET row == Head(todo)[2]
       IN  /\ ConfigureButton(row)
           /\ preview_set_theme(row)
           /\ todo' = config_set_theme(row) \o Tail(todo)
    /\ UNCHANGED <<store, otherVars, daemonVars, running, dialog_inbox,
                   writable, widgetVars, model_set, selection, fullscreen,
                   history>>

\* The mode is written; the dialog does not listen to it.
config_set_mode ==
    /\ todo # <<>>
    /\ Head(todo)[1] = "set_mode"
    /\ Write([store EXCEPT !.mode = Head(todo)[2]])
    /\ todo' = Tail(todo)
    /\ mixed' = (mixed \/ other_list # Null)
    /\ UNCHANGED <<running, writable, widgetVars, treeVars, chosen>>

\* The list is written, or reset.  The dialog's own notification of a
\* change sets the selection at once.
SetThemes ==
    /\ todo # <<>>
    /\ Head(todo)[1] = "set_themes"
    /\ LET new == [store EXCEPT !.themes = Head(todo)[2]]
       IN  /\ Write(new)
           /\ \/ /\ new # store
                 /\ setup_treeview_selection(new, Tail(todo))
              \/ /\ new = store
                 /\ todo' = Tail(todo)
                 /\ UNCHANGED selection
    /\ mixed' = (mixed \/ other_list # Null)
    /\ UNCHANGED <<running, writable, widgetVars, model_set, active_theme,
                   configurable, preview, fullscreen, chosen>>

\* The user moves the selection.
Select(row) ==
    /\ selection' = row
    /\ todo' = <<<<"changed", row>>>>
    /\ chosen' = IF other_list = Null /\ dialog_inbox = {} THEN row ELSE Null
    /\ UNCHANGED <<mixed, store, otherVars, daemonVars, running, dialog_inbox,
                   writable, widgetVars, model_set, active_theme,
                   configurable, preview, fullscreen>>

\* The user can reach the widgets of the dialog.
Presented == running /\ ~fullscreen /\ todo = <<>>

\* A row is selected with the pointer or the keyboard.
SelectRow ==
    /\ Presented /\ model_set
    /\ Editable("themes", active)
    /\ \E row \in Rows \ {selection} : Select(row)

\* tree_selection_previous and tree_selection_next: there is no way past the
\* separator.
Neighbours(row) ==
    {RowList[j] : j \in {k \in DOMAIN RowList :
        \E i \in DOMAIN RowList : RowList[i] = row /\ k \in {i - 1, i + 1}}}
      \ {Separator}

\* The buttons of the full-screen preview, whether or not the list in the
\* dialog can be used.
fullscreen_preview_step ==
    /\ running /\ fullscreen /\ todo = <<>>
    /\ \E row \in Neighbours(selection) : Select(row)

\* The full-screen preview comes or goes: the job moves to the other widget,
\* which restarts it.
fullscreen_preview(on) ==
    /\ running /\ todo = <<>>
    /\ fullscreen = ~on /\ fullscreen' = on
    /\ preview' \in IF preview = Null THEN {Null} ELSE Spawned(preview)
    /\ UNCHANGED <<store, otherVars, daemonVars, running, dialog_inbox,
                   writable, widgetVars, model_set, selection, active_theme,
                   configurable, todo, history>>

fullscreen_preview_start_cb == fullscreen_preview(TRUE)
fullscreen_preview_cancelled_cb == fullscreen_preview(FALSE)

\* The theme's process ends by itself.
gs_job_died ==
    /\ preview # Null /\ todo = <<>>
    /\ preview' = Null
    /\ UNCHANGED <<store, otherVars, daemonVars, running, dialog_inbox,
                   writable, widgetVars, model_set, selection, active_theme,
                   configurable, fullscreen, todo, history>>

-----------------------------------------------------------------------------
(***************************************************************************)
(* The dialog's switches and spin buttons, and its notifications.          *)
(***************************************************************************)

\* The delays that can be edited: not locked, and switched on.
Sensitive(on) ==
    {d \in writable : Editable(d, on)}

\* Every widget is set from the store before its handler is connected.
ShowSettings ==
    /\ active' = store.on
    /\ spin' = [d \in Delays |-> Shown(d, store.delay[d])]
    /\ sensitive' = Sensitive(store.on)

\* The dialog starts: the widgets are set, the list of a random theme is
\* brought up to date, and the tree view is left to an idle source.
configure_capplet ==
    /\ ~running
    /\ running' = TRUE
    /\ ShowSettings
    /\ Write([store EXCEPT !.themes = IF store.mode = "random" THEN ThemeList
                                                               ELSE @])
    /\ UNCHANGED <<writable, treeVars, todo, history>>

\* The tree view gets its model and its selection.
setup_treeview_idle ==
    /\ running /\ ~model_set
    /\ todo = <<>>
    /\ model_set' = TRUE
    /\ setup_treeview_selection(store, <<>>)
    /\ UNCHANGED <<store, otherVars, daemonVars, running, dialog_inbox,
                   writable, widgetVars, active_theme, configurable, preview,
                   fullscreen, history>>

\* The user closes the dialog: the process ends, and its preview with it.
response_cb ==
    /\ Presented
    /\ running' = FALSE
    /\ model_set' = FALSE
    /\ dialog_inbox' = {}
    /\ selection' = Null
    /\ active_theme' = Null
    /\ configurable' = FALSE
    /\ preview' = Null
    /\ fullscreen' = FALSE
    /\ chosen' = Null
    /\ mixed' = mixed
    /\ active' = [s \in Switches |-> FALSE]
    /\ spin' = [d \in Delays |-> 0]
    /\ sensitive' = {}
    /\ UNCHANGED <<store, otherVars, daemonVars, writable, todo>>

\* config_set_saver_enabled and its like.
StoreSwitch(s, on) == Write([store EXCEPT !.on[s] = on])

\* The user moves a switch.
SwitchToggled ==
    /\ Presented
    /\ \E s \in {x \in Switches : Editable(x, active)} :
          LET on == [active EXCEPT ![s] = ~@]
          IN  /\ active' = on
              /\ sensitive' = Sensitive(on)
              /\ StoreSwitch(s, on[s])
    /\ UNCHANGED <<running, writable, spin, treeVars, todo, history>>

\* The user turns a spin button.
DelayChanged ==
    /\ Presented
    /\ \E d \in sensitive, v \in 0..MaxDelay :
          /\ v = Shown(d, v)
          /\ spin' = [spin EXCEPT ![d] = v]
          /\ Write([store EXCEPT !.delay[d] = v])
    /\ UNCHANGED <<running, writable, active, sensitive, treeVars, todo,
                   history>>

\* A switch follows the store; sensitivity follows the switch.
ui_set_switch(s) ==
    /\ active' = [active EXCEPT ![s] = store.on[s]]
    /\ sensitive' = Sensitive(active')
    /\ UNCHANGED <<store, daemonVars, spin, selection, todo>>

\* A spin button follows the store.  Only if its value moves is it written
\* back, within its bounds.
ui_set_delay(d) ==
    LET v == Shown(d, store.delay[d])
    IN  /\ spin' = [spin EXCEPT ![d] = v]
        /\ store' = [store EXCEPT !.delay[d] = IF v # spin[d] THEN v ELSE @]
        /\ daemon_inbox' = daemon_inbox \cup Changed(store')
        /\ UNCHANGED <<prefs, active, sensitive, selection, todo>>

\* The selection follows the store, once there is a tree to select in.
ui_set_theme ==
    /\ \/ /\ model_set
          /\ setup_treeview_selection(store, <<>>)
       \/ /\ ~model_set
          /\ UNCHANGED <<selection, todo>>
    /\ UNCHANGED <<store, daemonVars, active, spin, sensitive>>

\* A notification reaches the dialog.  The mode is not listened to.
key_changed_cb ==
    /\ todo = <<>>
    /\ \E k \in dialog_inbox :
          /\ dialog_inbox' = dialog_inbox \ {k}
          /\ \/ /\ k \in Switches
                /\ ui_set_switch(k)
             \/ /\ k \in Delays
                /\ ui_set_delay(k)
             \/ /\ k = "themes"
                /\ ui_set_theme
             \/ /\ k = "mode"
                /\ UNCHANGED <<store, daemonVars, active, spin, sensitive,
                               selection, todo>>
    /\ UNCHANGED <<otherVars, running, writable, model_set, active_theme,
                   configurable, preview, fullscreen, history>>

-----------------------------------------------------------------------------
(***************************************************************************)
(* The daemon, and other programs.                                         *)
(***************************************************************************)

\* SLIP: a delay is copied as it is.
CopiedRaw(k) ==
    IF k \in Switches THEN [prefs EXCEPT !.on[k] = store.on[k]]
    ELSE IF k \in Delays THEN [prefs EXCEPT !.delay[k] = store.delay[k]]
    ELSE [prefs EXCEPT ![k] = store[k]]

\* The setting the daemon copies for a key.
Copied(k) ==
    IF k \in Switches THEN [prefs EXCEPT !.on[k] = store.on[k]]
    ELSE IF k \in Delays THEN [prefs EXCEPT !.delay[k] = Used(k, store.delay[k])]
    ELSE [prefs EXCEPT ![k] = store[k]]

\* A notification reaches the daemon (gs-prefs.c, key_changed_cb).
PrefsChanged ==
    /\ \E k \in daemon_inbox :
          /\ daemon_inbox' = daemon_inbox \ {k}
          /\ prefs' = Copied(k)
    /\ UNCHANGED <<store, otherVars, dialogVars, history>>

\* Another program changes a switch or a delay, within no bounds.
OtherSets ==
    /\ others < MaxOthers
    /\ others' = others + 1
    /\ \/ \E s \in Switches :
             OtherWrites([store EXCEPT !.on[s] = ~@])
       \/ \E d \in Delays, v \in 0..MaxDelay + 1 :
             OtherWrites([store EXCEPT !.delay[d] = v])
    /\ UNCHANGED <<other_list, running, writable, widgetVars, treeVars, todo,
                   history>>

\* Another dialog stores a row: the mode, and later the list.
OtherSetsMode ==
    /\ others < MaxOthers
    /\ other_list = Null
    /\ others' = others + 1
    /\ \E row \in Rows :
          /\ OtherWrites([store EXCEPT !.mode = ModeOf(row)])
          /\ other_list' = row
    /\ chosen' = Null
    /\ mixed' = (mixed \/ todo # <<>>)
    /\ UNCHANGED <<running, writable, widgetVars, treeVars, todo>>

OtherSetsThemes ==
    /\ other_list # Null
    /\ other_list' = Null
    /\ OtherWrites([store EXCEPT !.themes = ListOf(other_list)])
    /\ mixed' = (mixed \/ todo # <<>>)
    /\ UNCHANGED <<others, running, writable, widgetVars, treeVars, todo,
                   chosen>>

Handler == tree_selection_changed_cb \/ config_set_mode \/ SetThemes

Next ==
    \/ Handler
    \/ SelectRow
    \/ fullscreen_preview_step
    \/ fullscreen_preview_start_cb
    \/ fullscreen_preview_cancelled_cb
    \/ gs_job_died
    \/ SwitchToggled
    \/ DelayChanged
    \/ configure_capplet
    \/ setup_treeview_idle
    \/ response_cb
    \/ key_changed_cb
    \/ PrefsChanged
    \/ OtherSets
    \/ OtherSetsMode
    \/ OtherSetsThemes

Spec == Init /\ [][Next]_vars

-----------------------------------------------------------------------------
TypeOK ==
    /\ store \in Settings
    /\ others \in 0..MaxOthers
    /\ other_list \in Rows \cup {Null}
    /\ prefs \in Settings
    /\ daemon_inbox \subseteq Keys
    /\ running \in BOOLEAN
    /\ dialog_inbox \subseteq Keys
    /\ writable \subseteq Delays
    /\ active \in [Switches -> BOOLEAN]
    /\ spin \in [Delays -> 0..MaxDelay]
    /\ sensitive \subseteq writable
    /\ model_set \in BOOLEAN
    /\ selection \in Rows \cup {Null}
    /\ active_theme \in Themes \cup {Null, "xfce-blank"}
    /\ configurable \in BOOLEAN
    /\ preview \in Themes \cup {Null}
    /\ fullscreen \in BOOLEAN
    /\ Len(todo) <= 2
    /\ chosen \in Rows \cup {Null}
    /\ mixed \in BOOLEAN

\* What the daemon uses, but for the keys it is yet to hear of.
DaemonFollows ==
    LET p == gs_prefs_load_from_settings
    IN  /\ \A k \in {"mode", "themes"} \ daemon_inbox : prefs[k] = p[k]
        /\ \A s \in Switches \ daemon_inbox : prefs.on[s] = p.on[s]
        /\ \A d \in Delays \ daemon_inbox : prefs.delay[d] = p.delay[d]

\* What the widgets show, but for the keys the dialog is yet to hear of.
WidgetsFollow ==
    /\ \A s \in Switches \ dialog_inbox : active[s] = store.on[s]
    /\ \A d \in Delays \ dialog_inbox : spin[d] = Shown(d, store.delay[d])
    /\ sensitive = Sensitive(active)

\* The row selected is the one the settings stand for, what runs as preview
\* belongs to it, and the configure button is for it.
SelectionFollows ==
    /\ selection = config_get_theme(store)
    /\ preview # Null =>
          selection \in {Random, preview}
    /\ daemon_inbox = {} /\ prefs.on["saver"] =>
          gs_prefs_get_theme(prefs) = CASE selection = BlankOnly -> {}
                                        [] selection = Random -> Themes
                                        [] OTHER -> {selection}
    /\ configurable => active_theme = selection

\* However the changes of the user, of the daemon's side and of other
\* programs interleave, the three agree again as soon as the notifications
\* are delivered and no write is half done: the daemon uses what is stored,
\* the dialog shows it, and the row selected is the theme the daemon shows.
SettingsAgree ==
    /\ DaemonFollows
    /\ running /\ todo = <<>> => WidgetsFollow
    /\ (running /\ model_set /\ todo = <<>> /\ other_list = Null /\ ~mixed
          /\ dialog_inbox \cap {"mode", "themes"} = {}) => SelectionFollows

\* A row the user selects is what ends up stored: the dialog's reaction to
\* its own half-done write (key_changed_cb, run inside config_set_theme)
\* never replaces the choice by another.
ChoiceSticks ==
    chosen # Null /\ todo = <<>> => config_get_theme(store) = chosen
=============================================================================
