-------------------------------- MODULE Tab --------------------------------
(***************************************************************************)
(* A tab of the browser with the web frontend.  It shows one page at a     *)
(* time, a settings page, a live view, the console or a page with a job,   *)
(* and a behaviour is one stay on it.                                      *)
(***************************************************************************)
EXTENDS SettingsPage, LiveView, WebConsole, JobPage

VARIABLE tab   (* the kind of page                                         *)

(* There is a page of each kind, one that can stay as it is opened.        *)
ASSUME TabAssumption ==
  /\ \E p \in Pages : ~p.hook.defaults
  /\ Views # {} /\ Lanes # {}
  /\ \E h \in JobHooks : h.opens = "none"

pageVars == <<settingsVars, liveVars, consoleVars, jobVars>>
tabVars  == <<tab, pageVars>>

-----------------------------------------------------------------------------
(* The pages that are not shown stay in one of their initial states.       *)
NoSettings == OpenOn(CHOOSE p \in Pages : ~p.hook.defaults) /\ stored = CHOOSE v \in Values : TRUE
NoView     == /\ OpenView(CHOOSE v \in Views : TRUE) /\ hidden = TRUE
              /\ reads[CHOOSE l \in Lanes : TRUE] = Idle

NoJob      == /\ OpenJobPage(CHOOSE h \in JobHooks : h.opens = "none") /\ job = "idle"

TabInit ==
  \/ tab = "settings" /\ SettingsInit /\ NoView /\ ConsoleInit /\ NoJob
  \/ tab = "view"     /\ NoSettings /\ LiveInit /\ ConsoleInit /\ NoJob
  \/ tab = "console"  /\ NoSettings /\ NoView /\ ConsoleInit /\ NoJob
  \/ tab = "job"      /\ NoSettings /\ NoView /\ ConsoleInit /\ JobInit

InSettings == tab = "settings" /\ SettingsNext /\ UNCHANGED <<tab, liveVars, consoleVars, jobVars>>
InView     == tab = "view" /\ LiveNext /\ UNCHANGED <<tab, settingsVars, consoleVars, jobVars>>
InConsole  == tab = "console" /\ ConsoleNext /\ UNCHANGED <<tab, settingsVars, liveVars, jobVars>>
InJob      == tab = "job" /\ JobNext /\ UNCHANGED <<tab, settingsVars, liveVars, consoleVars>>

TabNext == InSettings \/ InView \/ InConsole \/ InJob

(* Only a page with a job has something to wait for: on the others nothing *)
(* of it is enabled.                                                       *)
TabSpec == TabInit /\ [][TabNext]_tabVars /\ JobFairness
=============================================================================
