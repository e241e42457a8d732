\* The examples of sw/ that live on the timer, the pads and the wake flags: each
\* image is started alone, at the paces of its module.
SPECIFICATION Spec
CONSTANTS
    N = 1
    Pins = {0, 1, 2, 3, 4, 5, 6, 7, 8, 9, 10, 11, 12, 13, 14, 15}
    CountMod = 4096
    Channels = {0, 1}
    CapMod = 65536
    Images = {"i2c_eeprom", "tm1637", "ht1621", "hd44780", "onewire", "uart_tx", "uart_echo",
              "ws2812", "ir_tx", "ir_rx", "ir_learn", "stepper", "wake_test", "bldc6",
              "irq_aggregate", "dc_tacho", "cap_touch", "pwm_dac", "pdm_dac", "psg3", "pwm4", "tone_melody",
              "irq_timer", "timer_pwm"}
INVARIANTS CleanBus DeviceServed DelayKept LevelsPlayed EdgesOnTime EventsCounted GatesApart
PROPERTIES Ends
