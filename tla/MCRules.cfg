SPECIFICATION Spec
CONSTANT UnitOrder <- MCUnitOrder
INVARIANTS PredicatesFailClosed AWordNeverSwitches TheVerdictIsSound
  AQuoteIsInTheLetter AValueStandsAtItsSpan LossIsCounted
  WhatLoadsCanAnswer AnomalyOnlyDowngrades OnlyACalibratedScoreRoutes
  NoNumberOverAToken AFlagIsExplained FartherOutIsNoLessUnusual AFitIsIsotonic
  TheHearingReadsTheSubmission ThePagesShowWhatIs
  NoCaseFallsThrough TheClocksAgree
  ALetterSaysWhatItMust TheWindowIsWhole
