CONSTANTS
  NULL = NULL
  Clock = Clock
  UIntMod = 16
  Pcbs = {1, 2, 3, 4, 5, 6, 7, 8, 9, 10, 11}
  USems <- TestSems
  Regs = {32, 33}
  Installed = {32, 33}
  KillScope = {"self", "ancestor"}
  CarefulIO = TRUE
  sem_term_mut = sem_term_mut  sem_testsem = sem_testsem  sem_s = sem_s
  sem_startp2 = sem_startp2  sem_endp2 = sem_endp2  sem_endp3 = sem_endp3
  sem_blkp4 = sem_blkp4  sem_synp4 = sem_synp4  sem_endp4 = sem_endp4
  sem_endp5 = sem_endp5  sem_endp8 = sem_endp8  sem_blkp8 = sem_blkp8
  sem_endcreate1 = sem_endcreate1  sem_endcreate2 = sem_endcreate2  sem_blkp9 = sem_blkp9
  sem_p11 = sem_p11  sem_l_ns1_a = sem_l_ns1_a  sem_l_ns1_b = sem_l_ns1_b
  sem_l_ns2_a = sem_l_ns2_a  sem_l_ns2_b = sem_l_ns2_b  sem_r_ns1_a = sem_r_ns1_a
  sem_r_ns1_b = sem_r_ns1_b  sem_r_ns2_a = sem_r_ns2_a  sem_r_ns2_b = sem_r_ns2_b
  Loops = 3
  Rounds = 4
SPECIFICATION TestSpec
INVARIANTS
  ChecksPass
  OnePrints
  Careful
PROPERTIES
  TestEnds
CHECK_DEADLOCK FALSE
