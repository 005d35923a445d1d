SPECIFICATION RFairSpec
CONSTANTS
  N = 2
  AckOrder <- FailingAcks
  MaxFaults = 1
INVARIANTS
  WhatRemainsIsTrue
PROPERTIES
  ImplementsLedger
  AckBeforeTimeoutIsFinal
  TimerEnds
  SilenceEscalatesToThoseLeft
  RemovedIsLeftAlone
CHECK_DEADLOCK FALSE
