\* The default fractions, any guest exit, set-up and KVM_RUN that may fail; the guests
\* of matrix-a.c count in two bits.
CONSTANTS
  FRAC_A = 7
  FRAC_B = 3
  AX_WIDTH = 2
  GuestExits = {"IO", "MMIO", "SHUTDOWN", "panic"}
  SetupMayFail = TRUE
  RunMayFail = TRUE
SPECIFICATION MCSpec
INVARIANTS NoLeftover SevenOfTen
PROPERTIES ImplementsTurns OthersImplementTurns EachVmRuns
