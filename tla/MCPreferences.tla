--------------------------- MODULE MCPreferences ---------------------------
\* Two themes, a switch that governs a delay, and the delay it governs.
EXTENDS Preferences

MCThemeList == <<"floaters", "popsquares">>
MCSwitches == {"saver"}
MCDelays == {"idle"}
=============================================================================
