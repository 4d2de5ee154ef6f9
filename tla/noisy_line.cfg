CONSTANTS
    A = A
    Zero = Zero
    One = One
    Dollar = Dollar
    Star = Star
    CR = CR
    LF = LF
    Chars <- AllChars
    IdChars <- Body3
    BodyChars <- Body3
    Code <- TwoBitCode
    Digit <- OneBitDigit
    DigitBits = 1
    Bodies <- TwoBodies
    MaxSentences = 2
    MaxChars = 16
SPECIFICATION LinkSpec
INVARIANTS
    TypeOK
    LinesAreTheStream
    AcceptedWasSent
    NoiseIsLocal
